---- MODULE Spec2Model ----
(***************************************************************************)
(* Winery.js object model: TypeRegistry, ProviderRegistry, Uri,            *)
(* NamedObjectRegistry and the chain of ScopedObjectContexts               *)
(* (host -> application -> request template -> request).                   *)
(*                                                                         *)
(* JS strings that are parsed (URIs, protocols) are sequences of           *)
(* one-character strings; other strings (type names, object names,        *)
(* scopes) are TLA+ strings.  A JS value is a record with a field k.       *)
(***************************************************************************)
EXTENDS Integers, Sequences, FiniteSets, TLC

VARIABLES ctxs, regs, last, hosts

vars == <<ctxs, regs, last, hosts>>

(***************************************************************************)
(* Bounds of the model.                                                    *)
(***************************************************************************)
\* Number of request templates loaded on top of the application.
MaxTemplates == 1
\* Number of request contexts alive at the same time.
MaxRequests == 2
\* Length of an array of URIs handed to ProviderRegistry.provide.
MaxUris == 2
\* Number of '&'-separated pieces in the query of a URI string.
MaxPairs == 2
\* Number of definition files of one kind an application config lists.
MaxFiles == 2
\* Number of instance names in one register call.
MaxNames == 2
\* Number of instance names a Hub lists.
MaxListed == 2

(***************************************************************************)
(* Strings.                                                                *)
(***************************************************************************)
LowerChar(ch) ==
    CASE ch = "A" -> "a"
      [] ch = "B" -> "b"
      [] ch = "P" -> "p"
      [] ch = "X" -> "x"
      [] ch = "K" -> "k"
      [] OTHER -> ch

\* String.prototype.toLowerCase
toLowerCase(s) == [i \in 1..Len(s) |-> LowerChar(s[i])]

\* String.prototype.substring(start, end), 0-based, end exclusive.
substring(s, start, end) == SubSeq(s, start + 1, end)

\* Does pat occur in s at 0-based position i ?
MatchesAt(s, pat, i) ==
    /\ i + Len(pat) <= Len(s)
    /\ \A j \in 1..Len(pat) : s[i + j] = pat[j]

\* String.prototype.indexOf(pat, from): 0-based, -1 when absent.
indexOf(s, pat, from) ==
    LET hits == {i \in from..Len(s) : MatchesAt(s, pat, i)}
    IN  IF hits = {} THEN -1
        ELSE CHOOSE i \in hits : \A j \in hits : i <= j

\* String.prototype.split(sep) for a one-character separator.
RECURSIVE split(_, _)
split(s, sep) ==
    LET i == indexOf(s, <<sep>>, 0)
    IN  IF i = -1 THEN <<s>>
        ELSE <<substring(s, 0, i)>> \o split(substring(s, i + 1, Len(s)), sep)

(***************************************************************************)
(* JS values handed to create() and held by named object definitions.     *)
(***************************************************************************)
Prim(v) == [k |-> "prim", v |-> v]
Obj(t, sub) == [k |-> "obj", type |-> t, value |-> sub]
Str(s) == [k |-> "str", s |-> s]
Ref(n) == [k |-> "ref", name |-> n]
Arr(es) == [k |-> "arr", elems |-> es]

Null == [k |-> "null"]
\* Thrown errors; the offending key is kept with the message.
ErrType(msg, t) == [k |-> "err", msg |-> msg, type |-> t]
ErrProtocol(msg, p) == [k |-> "err", msg |-> msg, protocol |-> p]
ErrName(msg, n) == [k |-> "err", msg |-> msg, name |-> n]
\* An evaluation that re-enters itself and never returns.
Loop == [k |-> "loop"]

\* A thrown error, or an evaluation that never returns.
IsFail(v) == v.k \in {"err", "loop"}

(***************************************************************************)
(* Uri (object-provider.ts).                                               *)
(***************************************************************************)
NoUri == [success |-> FALSE]

\* Uri.setParameter applied to the pairs of a query string, in order.
RECURSIVE setParameters(_, _)
setParameters(params, kvs) ==
    IF kvs = <<>> THEN params
    ELSE LET cols == split(Head(kvs), "=")
         IN  setParameters((toLowerCase(cols[1]) :> cols[2]) @@ params, Tail(kvs))

\* Variant: a string that starts with ":/" is taken to have an empty protocol.
Uri_tryParse_EmptyProtocol(input) ==
    LET end == indexOf(input, <<":", "/">>, 0)
    IN  IF end < 0 THEN NoUri
        ELSE LET protocol == substring(input, 0, end)
                 start == end + 2
                 q == indexOf(input, <<"?">>, start)
             IN  IF q = -1
                 THEN [success |-> TRUE, protocol |-> protocol,
                       path |-> substring(input, start, Len(input)),
                       parameters |-> <<>>]
                 ELSE LET kvStrings == split(substring(input, q + 1, Len(input)), "&")
                      IN  IF \E i \in 1..Len(kvStrings) : Len(split(kvStrings[i], "=")) # 2
                          THEN NoUri
                          ELSE [success |-> TRUE, protocol |-> protocol,
                                path |-> substring(input, start, q),
                                parameters |-> setParameters(<<>>, kvStrings)]

\* Uri.tryParse
Uri_tryParse(input) ==
    LET end == indexOf(input, <<":", "/">>, 0)
    IN  IF end <= 0 THEN NoUri
        ELSE LET protocol == substring(input, 0, end)
                 start == end + 2
                 q == indexOf(input, <<"?">>, start)
             IN  IF q = -1
                 THEN [success |-> TRUE, protocol |-> protocol,
                       path |-> substring(input, start, Len(input)),
                       parameters |-> <<>>]
                 ELSE LET kvStrings == split(substring(input, q + 1, Len(input)), "&")
                      IN  IF \E i \in 1..Len(kvStrings) : Len(split(kvStrings[i], "=")) # 2
                          THEN NoUri
                          ELSE [success |-> TRUE, protocol |-> protocol,
                                path |-> substring(input, start, q),
                                parameters |-> setParameters(<<>>, kvStrings)]

Uri_isUri(input) == Uri_tryParse(input).success

\* Uri.parse: the Uri, or the thrown error.
Uri_parse(input) ==
    LET result == Uri_tryParse(input)
    IN  IF ~result.success
        THEN [k |-> "err", msg |-> "Invalid URI string", input |-> input]
        ELSE [k |-> "uri", uri |-> result]

\* Uri.getParameter
Uri_getParameter(uri, name) ==
    IF toLowerCase(name) \in DOMAIN uri.parameters
    THEN uri.parameters[toLowerCase(name)] ELSE <<"undefined">>

(***************************************************************************)
(* Results of an evaluation: the value (or the failure), the registered   *)
(* functions that were invoked, in order, and the named object registries *)
(* as the evaluation leaves them.                                          *)
(***************************************************************************)
R(val, calls, rg) == [val |-> val, calls |-> calls, rg |-> rg]

\* Identity of the function a TypeDef / ProviderDef loads (module + name).
TypeFn(l, t) == [lvl |-> l, type |-> t]
ProviderFn(l, p) == [lvl |-> l, protocol |-> p]

(***************************************************************************)
(* TypeRegistry (object-type.ts).                                          *)
(***************************************************************************)
TypeRegistry_register(reg, type, creator) == (type :> creator) @@ reg

TypeRegistry_supports(reg, typeName) == typeName \in DOMAIN reg

RECURSIVE TypeRegistry_fromDefinition(_, _)
TypeRegistry_fromDefinition(registry, typeDefCollection) ==
    IF typeDefCollection = <<>> THEN registry
    ELSE LET def == Head(typeDefCollection)
         IN  TypeRegistry_fromDefinition(
                 TypeRegistry_register(registry, def.typeName, def.functionName),
                 Tail(typeDefCollection))

\* elem._type of an array element or input object.
TypeOf(e) == IF e.k = "obj" THEN e.type ELSE "undefined"

(***************************************************************************)
(* ProviderRegistry (object-provider.ts).                                  *)
(***************************************************************************)
\* Variant: the protocol is stored as written.
ProviderRegistry_register_AsWritten(reg, protocol, loader) == (protocol :> loader) @@ reg

ProviderRegistry_register(reg, protocol, loader) == (toLowerCase(protocol) :> loader) @@ reg

\* Variant: the protocol is looked up as written.
ProviderRegistry_supports_AsWritten(reg, protocol) == protocol \in DOMAIN reg

ProviderRegistry_supports(reg, protocol) == toLowerCase(protocol) \in DOMAIN reg

RECURSIVE ProviderRegistry_fromDefinition(_, _)
ProviderRegistry_fromDefinition(registry, providerDefCollection) ==
    IF providerDefCollection = <<>> THEN registry
    ELSE LET def == Head(providerDefCollection)
         IN  ProviderRegistry_fromDefinition(
                 ProviderRegistry_register(registry, def.protocol, def.functionName),
                 Tail(providerDefCollection))

\* Provider functions of the tests (provideProtocolA): the path of the URI.
ProviderMethod(fn, uris, isArray) ==
    IF isArray
    THEN [k |-> "provs", provider |-> fn, paths |-> [i \in 1..Len(uris) |-> uris[i].path]]
    ELSE [k |-> "prov", provider |-> fn, path |-> uris[1].path]

\* Variant: an unsupported protocol yields null instead of throwing.
ProviderRegistry_provide_Quiet(reg, uris, isArray, rg) ==
    IF isArray /\ Len(uris) = 0 THEN R(Null, <<>>, rg)
    ELSE LET protocol == uris[1].protocol
         IN  IF isArray /\ \E i \in 1..Len(uris) : uris[i].protocol # protocol
             THEN R(ErrProtocol("Protocol must the the same with an array of Uris", protocol),
                    <<>>, rg)
             ELSE LET lowerCaseProtocol == toLowerCase(protocol)
                  IN  IF ProviderRegistry_supports(reg, lowerCaseProtocol)
                      THEN R(ProviderMethod(reg[lowerCaseProtocol], uris, isArray),
                             <<reg[lowerCaseProtocol]>>, rg)
                      ELSE R(Null, <<>>, rg)

\* ProviderRegistry.provide; a single Uri is passed as a one-element sequence
\* with isArray = FALSE.
ProviderRegistry_provide(reg, uris, isArray, rg) ==
    IF isArray /\ Len(uris) = 0 THEN R(Null, <<>>, rg)
    ELSE LET protocol == uris[1].protocol
         IN  IF isArray /\ \E i \in 1..Len(uris) : uris[i].protocol # protocol
             THEN R(ErrProtocol("Protocol must the the same with an array of Uris", protocol),
                    <<>>, rg)
             ELSE LET lowerCaseProtocol == toLowerCase(protocol)
                  IN  IF ProviderRegistry_supports(reg, lowerCaseProtocol)
                      THEN R(ProviderMethod(reg[lowerCaseProtocol], uris, isArray),
                             <<reg[lowerCaseProtocol]>>, rg)
                      ELSE R(ErrProtocol("Unsupported protocol", protocol), <<>>, rg)

(***************************************************************************)
(* NamedObjectRegistry (named-object.ts).                                  *)
(***************************************************************************)
NamedObject(def, value, scope) == [k |-> "nobj", def |-> def, value |-> value, scope |-> scope]

NamedObjectRegistry_get(reg, name) == IF name \in DOMAIN reg THEN reg[name] ELSE Null

\* Variant: the name is never found.
NamedObjectRegistry_has_Never(reg, name) == FALSE

NamedObjectRegistry_has(reg, name) == name \in DOMAIN reg

NamedObjectRegistry_insert(reg, object) == (object.def.name :> object) @@ reg

(***************************************************************************)
(* ScopedObjectContextDef: lookups in the definition of one level.         *)
(***************************************************************************)
DeclaredNames(cs, c) ==
    {cs[c].def.namedObjectDefs[i].name : i \in 1..Len(cs[c].def.namedObjectDefs)}

\* The last definition of a name in a list wins (Map.set in list order).
LastDef(defs, name) ==
    LET idx == {i \in 1..Len(defs) : defs[i].name = name}
    IN  defs[CHOOSE i \in idx : \A j \in idx : j <= i]

getNamedObjectDef(cs, c, name) == LastDef(cs[c].def.namedObjectDefs, name)

\* Nearest level at or above c that declares the name; 0 when none does.
RECURSIVE OwnerOf(_, _, _)
OwnerOf(cs, c, name) ==
    IF c = 0 THEN 0
    ELSE IF name \in DeclaredNames(cs, c) THEN c
    ELSE OwnerOf(cs, cs[c].parent, name)

\* The levels from c upwards, c included, up to and excluding level o.
RECURSIVE LevelsBelow(_, _, _)
LevelsBelow(cs, c, o) ==
    IF c = 0 \/ c = o THEN {}
    ELSE {c} \cup LevelsBelow(cs, cs[c].parent, o)

\* Nearest level at or above c whose own registry supports the key.
RECURSIVE TypeScope(_, _, _)
TypeScope(cs, c, typeName) ==
    IF c = 0 THEN 0
    ELSE IF TypeRegistry_supports(cs[c].typeRegistry, typeName) THEN c
    ELSE TypeScope(cs, cs[c].parent, typeName)

RECURSIVE ProviderScope(_, _, _)
ProviderScope(cs, c, protocol) ==
    IF c = 0 THEN 0
    ELSE IF ProviderRegistry_supports(cs[c].providerRegistry, protocol) THEN c
    ELSE ProviderScope(cs, cs[c].parent, protocol)

\* Must a named object handed down by the parent be rebuilt at level c ?
needsUpdate(cs, c, object) ==
    LET o == OwnerOf(cs, cs[c].parent, object.def.name)
        lv == LevelsBelow(cs, c, o)
        d == object.def.dependencies
    IN  \/ \E l \in lv : \E t \in d.types : TypeRegistry_supports(cs[l].typeRegistry, t)
        \/ \E l \in lv : \E p \in d.protocols :
               ProviderRegistry_supports(cs[l].providerRegistry, p)
        \/ \E l \in lv : \E n \in d.objects : n \in DeclaredNames(cs, l)

(***************************************************************************)
(* ScopedObjectContext.create / get, TypeRegistry.create and the factory   *)
(* methods, which call back into the context they are handed.              *)
(* c is the context on which the call is issued; vis holds the            *)
(* <<context, name>> pairs whose get is in progress.                       *)
(***************************************************************************)
\* The result r of a nested call is bound once, as the element of {call}.
RECURSIVE create(_, _, _, _, _)
RECURSIVE get(_, _, _, _, _)

\* Variant: the factory resolves nested input through the level that
\* registered it instead of the context it is handed.
FactoryMethod_OwnLevel(fn, input, cs, rg, c, vis) ==
    IF input.k = "arr"
    THEN R(Arr([i \in 1..Len(input.elems) |->
                   [k |-> "made", by |-> fn, inner |-> input.elems[i].value]]),
           <<fn>>, rg)
    ELSE CHOOSE out \in
             {IF IsFail(r.val) THEN R(r.val, <<fn>> \o r.calls, r.rg)
              ELSE R([k |-> "made", by |-> fn, inner |-> r.val], <<fn>> \o r.calls, r.rg) :
                 r \in {create(cs, rg, fn.lvl, input.value, vis)}} : TRUE

\* Factory methods of the tests: createTypeA maps an array to its elements'
\* values, createTypeB returns context.create(input.value).
FactoryMethod(fn, input, cs, rg, c, vis) ==
    IF input.k = "arr"
    THEN R(Arr([i \in 1..Len(input.elems) |->
                   [k |-> "made", by |-> fn, inner |-> input.elems[i].value]]),
           <<fn>>, rg)
    ELSE CHOOSE out \in
             {IF IsFail(r.val) THEN R(r.val, <<fn>> \o r.calls, r.rg)
              ELSE R([k |-> "made", by |-> fn, inner |-> r.val], <<fn>> \o r.calls, r.rg) :
                 r \in {create(cs, rg, c, input.value, vis)}} : TRUE

\* Variant: the elements' type tags are not compared.
TypeRegistry_create_FirstTag(reg, input, cs, rg, c, vis) ==
    IF input.k = "arr" /\ input.elems = <<>> THEN R(Arr(<<>>), <<>>, rg)
    ELSE LET typeName == IF input.k = "arr" THEN TypeOf(input.elems[1]) ELSE TypeOf(input)
         IN  IF TypeRegistry_supports(reg, typeName)
             THEN FactoryMethod(reg[typeName], input, cs, rg, c, vis)
             ELSE R(ErrType("Not supported type", typeName), <<>>, rg)

TypeRegistry_create(reg, input, cs, rg, c, vis) ==
    IF input.k = "arr" /\ input.elems = <<>> THEN R(Arr(<<>>), <<>>, rg)
    ELSE LET typeName == IF input.k = "arr" THEN TypeOf(input.elems[1]) ELSE TypeOf(input)
         IN  IF input.k = "arr" /\ \E i \in 1..Len(input.elems) : TypeOf(input.elems[i]) # typeName
             THEN R(ErrType("Property '_type' must be the same for all elements", typeName),
                    <<>>, rg)
             ELSE IF TypeRegistry_supports(reg, typeName)
                  THEN FactoryMethod(reg[typeName], input, cs, rg, c, vis)
                  ELSE R(ErrType("Not supported type", typeName), <<>>, rg)

createObject(cs, rg, c, input, vis) ==
    LET typeName == IF input.k = "arr" THEN TypeOf(input.elems[1]) ELSE TypeOf(input)
        s == TypeScope(cs, c, typeName)
    IN  IF s = 0 THEN R(ErrType("Not supported type", typeName), <<>>, rg)
        ELSE TypeRegistry_create(cs[s].typeRegistry, input, cs, rg, c, vis)

provideUris(cs, rg, c, uris, isArray) ==
    LET s == ProviderScope(cs, c, uris[1].protocol)
    IN  IF s = 0 THEN R(ErrProtocol("Unsupported protocol", uris[1].protocol), <<>>, rg)
        ELSE ProviderRegistry_provide(cs[s].providerRegistry, uris, isArray, rg)

create(cs, rg, c, input, vis) ==
    CASE input.k = "obj" -> createObject(cs, rg, c, input, vis)
      [] input.k = "arr" ->
            IF input.elems = <<>> THEN R(input, <<>>, rg)
            ELSE IF input.elems[1].k = "obj" THEN createObject(cs, rg, c, input, vis)
            ELSE IF \A i \in 1..Len(input.elems) :
                        input.elems[i].k = "str" /\ Uri_isUri(input.elems[i].s)
                 THEN provideUris(cs, rg, c,
                          [i \in 1..Len(input.elems) |-> Uri_tryParse(input.elems[i].s)], TRUE)
                 ELSE R(input, <<>>, rg)
      [] input.k = "str" ->
            IF Uri_isUri(input.s)
            THEN provideUris(cs, rg, c, <<Uri_tryParse(input.s)>>, FALSE)
            ELSE R(input, <<>>, rg)
      [] input.k = "ref" ->
            CHOOSE out \in
                {IF IsFail(g.val) THEN g
                 ELSE IF g.val.k = "null"
                      THEN R(ErrName("Named object not found", input.name), g.calls, g.rg)
                      ELSE R(g.val.value, g.calls, g.rg) :
                    g \in {get(cs, rg, c, input.name, vis)}} : TRUE
      [] OTHER -> R(input, <<>>, rg)

\* Variant: what a request context re-materializes is also stored in its parent.
Materialize_IntoParent(cs, rg, c, def, vis) ==
    CHOOSE out \in
        {IF IsFail(r.val) THEN r
         ELSE LET object == NamedObject(def, r.val, cs[c].scope)
              IN  R(object, r.calls,
                    IF cs[c].def.analyse THEN r.rg
                    ELSE [r.rg EXCEPT ![c] = NamedObjectRegistry_insert(@, object),
                                      ![cs[c].parent] = NamedObjectRegistry_insert(@, object)]) :
            r \in {create(cs, rg, c, def.value, vis)}} : TRUE

\* Build the object of a definition through context c.  A request context
\* keeps what it re-materialized for the rest of the request; application and
\* template contexts are read-only once constructed.
Materialize(cs, rg, c, def, vis) ==
    CHOOSE out \in
        {IF IsFail(r.val) THEN r
         ELSE LET object == NamedObject(def, r.val, cs[c].scope)
              IN  R(object, r.calls,
                    IF cs[c].def.analyse THEN r.rg
                    ELSE [r.rg EXCEPT ![c] = NamedObjectRegistry_insert(@, object)]) :
            r \in {create(cs, rg, c, def.value, vis)}} : TRUE

get(cs, rg, c, name, vis) ==
    IF <<c, name>> \in vis THEN R(Loop, <<>>, rg)
    ELSE IF NamedObjectRegistry_has(rg[c], name)
         THEN R(NamedObjectRegistry_get(rg[c], name), <<>>, rg)
    ELSE IF name \in DeclaredNames(cs, c)
         THEN Materialize(cs, rg, c, getNamedObjectDef(cs, c, name), vis \cup {<<c, name>>})
    ELSE IF cs[c].parent = 0 THEN R(Null, <<>>, rg)
    ELSE CHOOSE out \in
             {IF IsFail(p.val) \/ p.val.k = "null" THEN p
              ELSE IF needsUpdate(cs, c, p.val)
                   THEN CHOOSE rebuilt \in
                            {R(m.val, p.calls \o m.calls, m.rg) :
                                m \in {Materialize(cs, p.rg, c, p.val.def,
                                                   vis \cup {<<c, name>>})}} : TRUE
                   ELSE p :
                 p \in {get(cs, rg, cs[c].parent, name, vis \cup {<<c, name>>})}} : TRUE

\* ScopedObjectContext.forEach: every name of the chain once, closest level
\* first, reported as the object get returns for it.
RECURSIVE ChainNames(_, _)
ChainNames(cs, c) ==
    IF c = 0 THEN <<>>
    ELSE LET own == [i \in 1..Len(cs[c].def.namedObjectDefs) |->
                        cs[c].def.namedObjectDefs[i].name]
         IN  own \o ChainNames(cs, cs[c].parent)

\* Variant: nothing is dropped.
Visited_All(names) == names

\* Drop the later occurrences of a name.
Visited(names) ==
    SelectSeq([i \in 1..Len(names) |->
                  IF \E j \in 1..(i - 1) : names[j] = names[i] THEN "" ELSE names[i]],
              LAMBDA n : n # "")

RECURSIVE forEachFrom(_, _, _, _, _)
forEachFrom(cs, rg, c, names, acc) ==
    IF names = <<>> THEN R(acc, <<>>, rg)
    ELSE CHOOSE out \in
             {CHOOSE all \in
                  {R(rest.val, g.calls \o rest.calls, rest.rg) :
                      rest \in {forEachFrom(cs, g.rg, c, Tail(names), Append(acc, g.val))}} :
                  TRUE :
                 g \in {get(cs, rg, c, Head(names), {})}} : TRUE

forEach(cs, rg, c) == forEachFrom(cs, rg, c, Visited(ChainNames(cs, c)), <<>>)

(***************************************************************************)
(* Dependency analysis of ScopedObjectContextDef.                          *)
(***************************************************************************)
NoDependencies == [types |-> {}, protocols |-> {}, objects |-> {}]

Analysis(types, protocols, objects, cycle) ==
    [types |-> types, protocols |-> protocols, objects |-> objects, cycle |-> cycle]

\* Variant: the value of a typed object is not walked.
RECURSIVE analyzeDependency_Shallow(_, _, _, _, _)
analyzeDependency_Shallow(cs, parent, defs, v, vis) ==
    CASE v.k = "obj" -> Analysis({v.type}, {}, {}, FALSE)
      [] v.k = "arr" ->
            LET ds == {analyzeDependency_Shallow(cs, parent, defs, v.elems[i], vis) :
                          i \in 1..Len(v.elems)}
            IN  Analysis(UNION {d.types : d \in ds}, UNION {d.protocols : d \in ds},
                         UNION {d.objects : d \in ds}, \E d \in ds : d.cycle)
      [] v.k = "str" ->
            IF Uri_isUri(v.s)
            THEN Analysis({}, {Uri_tryParse(v.s).protocol}, {}, FALSE)
            ELSE Analysis({}, {}, {}, FALSE)
      [] v.k = "ref" ->
            IF v.name \in vis THEN Analysis({}, {}, {v.name}, TRUE)
            ELSE IF \E i \in 1..Len(defs) : defs[i].name = v.name
                 THEN CHOOSE out \in
                          {Analysis(d.types, d.protocols, d.objects \cup {v.name}, d.cycle) :
                              d \in {analyzeDependency_Shallow(cs, parent, defs,
                                         LastDef(defs, v.name).value, vis \cup {v.name})}} : TRUE
            ELSE LET o == OwnerOf(cs, parent, v.name)
                 IN  IF o = 0 THEN Analysis({}, {}, {v.name}, FALSE)
                     ELSE LET d == getNamedObjectDef(cs, o, v.name).dependencies
                          IN  Analysis(d.types, d.protocols, d.objects \cup {v.name}, FALSE)
      [] OTHER -> Analysis({}, {}, {}, FALSE)

\* Walk a value; a reference to a name of the level under construction is
\* analysed on the spot, a reference to an ancestor's name takes over the
\* dependencies already attached to that definition.
RECURSIVE analyzeDependency(_, _, _, _, _)
analyzeDependency(cs, parent, defs, v, vis) ==
    CASE v.k = "obj" ->
            CHOOSE out \in
                {Analysis(d.types \cup {v.type}, d.protocols, d.objects, d.cycle) :
                    d \in {analyzeDependency(cs, parent, defs, v.value, vis)}} : TRUE
      [] v.k = "arr" ->
            LET ds == {analyzeDependency(cs, parent, defs, v.elems[i], vis) :
                          i \in 1..Len(v.elems)}
            IN  Analysis(UNION {d.types : d \in ds}, UNION {d.protocols : d \in ds},
                         UNION {d.objects : d \in ds}, \E d \in ds : d.cycle)
      [] v.k = "str" ->
            IF Uri_isUri(v.s)
            THEN Analysis({}, {Uri_tryParse(v.s).protocol}, {}, FALSE)
            ELSE Analysis({}, {}, {}, FALSE)
      [] v.k = "ref" ->
            IF v.name \in vis THEN Analysis({}, {}, {v.name}, TRUE)
            ELSE IF \E i \in 1..Len(defs) : defs[i].name = v.name
                 THEN CHOOSE out \in
                          {Analysis(d.types, d.protocols, d.objects \cup {v.name}, d.cycle) :
                              d \in {analyzeDependency(cs, parent, defs,
                                         LastDef(defs, v.name).value, vis \cup {v.name})}} : TRUE
            ELSE LET o == OwnerOf(cs, parent, v.name)
                 IN  IF o = 0 THEN Analysis({}, {}, {v.name}, FALSE)
                     ELSE LET d == getNamedObjectDef(cs, o, v.name).dependencies
                          IN  Analysis(d.types, d.protocols, d.objects \cup {v.name}, FALSE)
      [] OTHER -> Analysis({}, {}, {}, FALSE)

\* Variant: the dependencies are collected but a cycle is not reported.
analyzeNamedObjectDependency_Unchecked(cs, parent, defs, def) ==
    LET d == analyzeDependency(cs, parent, defs, def.value, {def.name})
    IN  Analysis(d.types, d.protocols, d.objects, FALSE)

analyzeNamedObjectDependency(cs, parent, defs, def) ==
    LET d == analyzeDependency(cs, parent, defs, def.value, {def.name})
    IN  Analysis(d.types, d.protocols, d.objects, d.cycle \/ def.name \in d.objects)

\* new ScopedObjectContextDef(parentDefinition, typeDefs, providerDefs,
\* objectDefs, enableDependencyAnalysis): the definition, or the cycle error.
ScopedObjectContextDef(cs, parent, typeDefs, providerDefs, objectDefs, analyse) ==
    CHOOSE out \in
        {LET bad == {i \in 1..Len(objectDefs) : deps[i].cycle}
         IN  IF analyse /\ bad # {}
             THEN [ok |-> FALSE,
                   error |-> ErrName("Cyclic dependency",
                                     objectDefs[CHOOSE i \in bad : \A j \in bad : i <= j].name)]
             ELSE [ok |-> TRUE,
                   typeDefs |-> typeDefs,
                   providerDefs |-> providerDefs,
                   analyse |-> analyse,
                   namedObjectDefs |->
                       [i \in 1..Len(objectDefs) |->
                           [objectDefs[i] EXCEPT !.dependencies =
                               IF analyse
                               THEN [types |-> deps[i].types, protocols |-> deps[i].protocols,
                                     objects |-> deps[i].objects]
                               ELSE NoDependencies]]] :
            deps \in {[i \in 1..Len(objectDefs) |->
                          analyzeNamedObjectDependency(cs, parent, objectDefs, objectDefs[i])]}} :
        TRUE

(***************************************************************************)
(* NamedObjectRegistry.fromDefinition and the ScopedObjectContext          *)
(* constructor.                                                            *)
(***************************************************************************)
\* Variant: the definition's value is stored as written, not created.
RECURSIVE NamedObjectRegistry_fromDefinition_Raw(_, _, _, _, _)
NamedObjectRegistry_fromDefinition_Raw(cs, rg, c, namedObjectDefCollection, calls) ==
    IF namedObjectDefCollection = <<>> THEN R(Null, calls, rg)
    ELSE LET def == Head(namedObjectDefCollection)
         IN  NamedObjectRegistry_fromDefinition_Raw(
                 cs,
                 [rg EXCEPT ![c] =
                     NamedObjectRegistry_insert(@, NamedObject(def, def.value, cs[c].scope))],
                 c, Tail(namedObjectDefCollection), calls)

RECURSIVE NamedObjectRegistry_fromDefinition(_, _, _, _, _)
NamedObjectRegistry_fromDefinition(cs, rg, c, namedObjectDefCollection, calls) ==
    IF namedObjectDefCollection = <<>> THEN R(Null, calls, rg)
    ELSE LET def == Head(namedObjectDefCollection)
         IN  CHOOSE out \in
                 {IF IsFail(r.val) THEN R(r.val, calls \o r.calls, r.rg)
                  ELSE NamedObjectRegistry_fromDefinition(
                           cs,
                           [r.rg EXCEPT ![c] =
                               NamedObjectRegistry_insert(@, NamedObject(def, r.val, cs[c].scope))],
                           c, Tail(namedObjectDefCollection), calls \o r.calls) :
                     r \in {create(cs, rg, c, def.value, {})}} : TRUE

\* The context record new ScopedObjectContext(scope, baseDir, parent, def) holds.
ScopedObjectContext(scope, parent, def) ==
    [scope |-> scope,
     parent |-> parent,
     def |-> def,
     typeRegistry |-> TypeRegistry_fromDefinition(<<>>, def.typeDefs),
     providerRegistry |-> ProviderRegistry_fromDefinition(<<>>, def.providerDefs)]

\* Construct the context on top of cs / rg; val is Null on success, the
\* thrown error otherwise.
Construct(cs, rg, scope, parent, def) ==
    LET cs2 == Append(cs, ScopedObjectContext(scope, parent, def))
    IN  [cs |-> cs2,
         r |-> NamedObjectRegistry_fromDefinition(
                   cs2, Append(rg, <<>>), Len(cs2), def.namedObjectDefs, <<>>)]

(***************************************************************************)
(* Definitions the levels are built from.                                  *)
(***************************************************************************)
TypeDef(typeName, l) ==
    [typeName |-> typeName, functionName |-> TypeFn(l, typeName), override |-> FALSE]

ProviderDef(protocol, l) ==
    [protocol |-> protocol, functionName |-> ProviderFn(l, toLowerCase(protocol)),
     override |-> FALSE]

NamedObjectDef(name, value) ==
    [name |-> name, value |-> value, override |-> FALSE, private |-> FALSE,
     dependencies |-> NoDependencies]

\* Application level of test/object-context-test.ts: TypeA, TypeB, ProtocolA,
\* objectA, objectB (TypeB wrapping TypeA) and objectC (a URI).
RootTypeDefs == <<TypeDef("TypeA", 1), TypeDef("TypeB", 1)>>
RootProviderDefs == <<ProviderDef(<<"P", "a">>, 1)>>
RootObjectDefs ==
    <<NamedObjectDef("objectA", Obj("TypeA", Prim(1))),
      NamedObjectDef("objectB", Obj("TypeB", Obj("TypeA", Prim(1)))),
      NamedObjectDef("objectC", Str(<<"P", "a", ":", "/", "x">>))>>

\* What a template or a request may carry as overrideTypes, overrideProviders
\* and overrideObjects: nothing, one override or addition, two objects that
\* reference each other, or the request level of test/object-context-test.ts.
Level(types, providers, objects) ==
    [types |-> types, providers |-> providers, objects |-> objects]

LevelCatalog ==
    {Level(<<>>, <<>>, <<>>),
     Level(<<"TypeA">>, <<>>, <<>>),
     Level(<<"TypeB">>, <<>>, <<>>),
     Level(<<>>, <<<<"p", "a">>>>, <<>>),
     Level(<<>>, <<>>, <<NamedObjectDef("objectA", Obj("TypeA", Prim(2)))>>),
     Level(<<>>, <<>>, <<NamedObjectDef("objectA", Ref("objectE"))>>),
     Level(<<>>, <<>>, <<NamedObjectDef("objectD", Str(<<"p", "a", ":", "/", "d">>))>>),
     Level(<<>>, <<>>, <<NamedObjectDef("objectE", Ref("objectA"))>>),
     Level(<<>>, <<>>, <<NamedObjectDef("objectE", Ref("objectE"))>>),
     Level(<<>>, <<>>, <<NamedObjectDef("objectD", Ref("objectE")),
                         NamedObjectDef("objectE", Ref("objectD"))>>),
     Level(<<>>, <<>>, <<NamedObjectDef("objectE",
                                        Arr(<<Obj("TypeB", Obj("TypeA", Prim(1))),
                                              Obj("TypeB", Prim(2))>>)),
                         NamedObjectDef("objectD", Arr(<<Ref("objectE"), Ref("objectC")>>))>>),
     Level(<<"TypeA">>, <<<<"p", "a">>>>,
           <<NamedObjectDef("objectA", Obj("TypeA", Prim(2))),
             NamedObjectDef("objectD", Str(<<"p", "a", ":", "/", "d">>))>>)}

\* What the requests served side by side override: a type, a provider, an
\* object, or all of them.
RequestCatalog ==
    {Level(<<"TypeA">>, <<>>, <<>>),
     Level(<<>>, <<<<"p", "a">>>>, <<>>),
     Level(<<>>, <<>>, <<NamedObjectDef("objectA", Obj("TypeA", Prim(2)))>>),
     Level(<<"TypeA">>, <<<<"p", "a">>>>,
           <<NamedObjectDef("objectA", Obj("TypeA", Prim(2))),
             NamedObjectDef("objectD", Str(<<"p", "a", ":", "/", "d">>))>>)}

ObjectNames == {"objectA", "objectB", "objectC", "objectD", "objectE", "objectX"}

CreateInputs ==
    {Obj("TypeA", Prim(1)),
     Obj("TypeB", Obj("TypeA", Prim(1))),
     Obj("TypeF", Prim(1)),
     Str(<<"P", "A", ":", "/", "x">>),
     Str(<<"f", ":", "/", "x">>),
     Arr(<<Obj("TypeA", Prim(1)), Obj("TypeA", Prim(2))>>),
     Arr(<<Obj("TypeA", Prim(1)), Obj("TypeB", Prim(2))>>)}

TemplateScopes == <<"template:l0", "template:l1", "template:l2", "template:l3", "template:l4">>

ScopeName(cs, analyse) == IF analyse THEN TemplateScopes[Len(cs)] ELSE "request"

(***************************************************************************)
(* Hosts (host.ts): Leaf, Proxy and Hub.  Instance names are strings of    *)
(* characters; a zone is named by a string, NoZone stands for undefined.   *)
(***************************************************************************)
NoZone == "undefined"
Zones == {"zone1"}
InstanceNames == {<<"a">>, <<"A">>, <<"b">>}

Rejected(msg) == [k |-> "err", msg |-> msg]

\* The lower-cased names of a list.
LowerCaseNames(names) == {toLowerCase(names[i]) : i \in 1..Len(names)}

\* Map.set(lowerCaseName, value) for every name of the list.
SetAll(map, names, value) ==
    [key \in DOMAIN map \cup LowerCaseNames(names) |->
        IF key \in LowerCaseNames(names) THEN value ELSE map[key]]

\* new Leaf(settings)
\* new RequestTemplateManager(loader, appGetter): the cache maps a uri to a
\* RequestTemplateReference; created counts the RequestTemplate instances
\* constructed so far and numbers them.
RequestTemplateManager_new == [cache |-> <<>>, created |-> 0]

\* templates is the Leaf's request template manager; executing holds the
\* request context the Leaf is executing step by step.
Leaf_new ==
    [applications |-> <<>>, applicationInstanceNames |-> <<>>,
     templates |-> RequestTemplateManager_new, executing |-> <<>>]

\* Variant: the names that are free are registered before the call fails.
Leaf_register_Partial(leaf, appModulePath, appInstanceNames, zone) ==
    IF zone # NoZone
    THEN [ok |-> FALSE, host |-> leaf,
          error |-> Rejected("LeafHost doesn't support register on a remote Zone.")]
    ELSE LET free == SelectSeq(appInstanceNames,
                               LAMBDA n : toLowerCase(n) \notin DOMAIN leaf.applications)
             partial == [leaf EXCEPT
                            !.applications = SetAll(@, free, appModulePath),
                            !.applicationInstanceNames = @ \o free]
         IN  IF Len(free) < Len(appInstanceNames)
             THEN [ok |-> FALSE, host |-> partial,
                   error |-> Rejected("Already registered with application name")]
             ELSE [ok |-> TRUE, host |-> partial, error |-> Null]

\* Leaf.register: ok and the Leaf afterwards, or the rejection.
Leaf_register(leaf, appModulePath, appInstanceNames, zone) ==
    IF zone # NoZone
    THEN [ok |-> FALSE, host |-> leaf,
          error |-> Rejected("LeafHost doesn't support register on a remote Zone.")]
    ELSE IF \E i \in 1..Len(appInstanceNames) :
                toLowerCase(appInstanceNames[i]) \in DOMAIN leaf.applications
    THEN [ok |-> FALSE, host |-> leaf,
          error |-> Rejected("Already registered with application name")]
    ELSE [ok |-> TRUE,
          host |-> [leaf EXCEPT
                       !.applications = SetAll(@, appInstanceNames, appModulePath),
                       !.applicationInstanceNames = @ \o appInstanceNames],
          error |-> Null]

\* new Hub(settings); localHost holds the Leaf once it is created.
Hub_new ==
    [localHost |-> <<>>, proxies |-> <<>>, applicationInstanceNames |-> <<>>,
     hostMap |-> <<>>, templateToAppNameMap |-> <<>>]

\* new Proxy(zone); worker is the hub() of the zone's worker.
Proxy_new(zone) == [zone |-> zone, applicationInstanceNames |-> <<>>, worker |-> Hub_new]

\* Hub.findOrCreateHost
Hub_findOrCreateHost(hub, zone) ==
    IF zone = NoZone
    THEN IF hub.localHost = <<>> THEN [hub EXCEPT !.localHost = <<Leaf_new>>] ELSE hub
    ELSE IF zone \in DOMAIN hub.proxies THEN hub
    ELSE [hub EXCEPT !.proxies = (zone :> Proxy_new(zone)) @@ @]

RECURSIVE Hub_register(_, _, _, _)

\* Proxy.register: the broadcast runs hub().register on the worker and does
\* not wait for, nor look at, what that call answers.
Proxy_register(proxy, appModulePath, appInstanceNames, zone) ==
    IF zone # NoZone /\ zone # proxy.zone
    THEN [ok |-> FALSE, host |-> proxy,
          error |-> Rejected("HostProxy cannot register application for a different zone.")]
    ELSE CHOOSE out \in
             {[ok |-> TRUE,
               host |-> [proxy EXCEPT
                            !.worker = registered.hub,
                            !.applicationInstanceNames = @ \o appInstanceNames],
               error |-> Null] :
                 registered \in {Hub_register(proxy.worker, appModulePath,
                                              appInstanceNames, NoZone)}} : TRUE

\* Hub.register: ok and the Hub afterwards, or the rejection.
Hub_register(hub, appModuleName, appInstanceNames, zone) ==
    CHOOSE out \in
        {LET with == IF zone = NoZone THEN [found EXCEPT !.localHost = <<r.host>>]
                     ELSE [found EXCEPT !.proxies[zone] = r.host]
         IN  IF ~r.ok THEN [ok |-> FALSE, hub |-> with, error |-> r.error]
             ELSE [ok |-> TRUE,
                   hub |-> [with EXCEPT
                               !.applicationInstanceNames = @ \o appInstanceNames,
                               !.hostMap = SetAll(@, appInstanceNames, zone)],
                   error |-> Null] :
            found \in {Hub_findOrCreateHost(hub, zone)},
            r \in {IF zone = NoZone
                   THEN Leaf_register(Hub_findOrCreateHost(hub, zone).localHost[1],
                                      appModuleName, appInstanceNames, NoZone)
                   ELSE Proxy_register(Hub_findOrCreateHost(hub, zone).proxies[zone],
                                       appModuleName, appInstanceNames, NoZone)}} : TRUE

(***************************************************************************)
(* The application of the host tests (test-app) on top of the built-in     *)
(* types and interceptors, request templates, and RequestContext           *)
(* (request-context.ts).  A function is named by the Prim it is loaded     *)
(* from; the value created for it is what createEntryPoint /               *)
(* createInterceptor return.                                               *)
(***************************************************************************)
EntryPointValue(function, hasStack, executionStack) ==
    [k |-> "obj", type |-> "EntryPoint", value |-> Prim(function),
     hasStack |-> hasStack, executionStack |-> executionStack]

InterceptorValue(function) ==
    [k |-> "obj", type |-> "Interceptor", value |-> Prim(function),
     hasStack |-> FALSE, executionStack |-> <<>>]

\* Built-in types EntryPoint and Interceptor, built-in interceptors.
HostTypeDefs == <<TypeDef("EntryPoint", 1), TypeDef("Interceptor", 1)>>
HostObjectDefs ==
    <<NamedObjectDef("finalizeResponse", InterceptorValue("finalizeResponse")),
      NamedObjectDef("executeEntryPoint", InterceptorValue("executeEntryPoint"))>>

\* host.json of the tests.
HostSettings ==
    [allowPerRequestOverride |-> TRUE,
     defaultExecutionStack |-> <<"finalizeResponse", "executeEntryPoint">>]

\* Entry points of test-app.
AppObjectDefs ==
    <<NamedObjectDef("foo", EntryPointValue("foo", FALSE, <<>>)),
      NamedObjectDef("alwaysThrow", EntryPointValue("alwaysThrow", FALSE, <<>>))>>

\* The object context of the Leaf ("global") and of the application.
GlobalContext ==
    Construct(<<>>, <<>>, "global", 0,
              ScopedObjectContextDef(<<>>, 0, HostTypeDefs, <<>>, HostObjectDefs, TRUE))

ApplicationContext ==
    CHOOSE out \in
        {Construct(global.cs, global.r.rg, "./application", 1,
                   ScopedObjectContextDef(global.cs, 1, <<>>, <<>>, AppObjectDefs, TRUE)) :
            global \in {GlobalContext}} : TRUE

\* Application.getInterceptor: the interceptor, Null, or the thrown error.
Application_getInterceptor(cs, rg, name) ==
    CHOOSE out \in
        {IF IsFail(object) THEN object
         ELSE IF object.k # "null" /\ TypeOf(object.def.value) # "Interceptor"
         THEN Rejected("is not of Interceptor type")
         ELSE IF object.k = "null" THEN Null ELSE object.value :
            object \in {get(cs, rg, 2, name, {}).val}} : TRUE

\* The interceptors of a list of names, as the Application constructor
\* collects them.
Application_stackOf(cs, rg, names) ==
    [i \in 1..Len(names) |-> Application_getInterceptor(cs, rg, names[i])]

\* new Application(hostContext, settings): contexts 1 (global), 2
\* (application) and 3 (default request template), the default execution
\* stack and the execution stack cached for every entry point.
Application ==
    CHOOSE out \in
        {CHOOSE made \in
             {[settings |-> HostSettings,
               cs |-> template.cs,
               rg |-> template.r.rg,
               defaultExecutionStack |->
                   Application_stackOf(app.cs, app.r.rg, HostSettings.defaultExecutionStack),
               perEntryPointExecutionStack |->
                   [name \in {objects[i].def.name :
                                 i \in {j \in 1..Len(objects) :
                                           TypeOf(objects[j].def.value) = "EntryPoint"}} |->
                       LET value == (CHOOSE i \in 1..Len(objects) : objects[i].def.name = name)
                       IN  IF objects[value].def.value.hasStack
                           THEN Application_stackOf(app.cs, app.r.rg,
                                                    objects[value].def.value.executionStack)
                           ELSE Application_stackOf(app.cs, app.r.rg,
                                                    HostSettings.defaultExecutionStack)],
               defaultRequestTemplate |-> 3] :
                 objects \in {forEach(app.cs, app.r.rg, 2).val},
                 template \in {Construct(app.cs, app.r.rg, "template:test-app", 2,
                                         ScopedObjectContextDef(app.cs, 2, <<>>, <<>>, <<>>,
                                                                TRUE))}} : TRUE :
            app \in {ApplicationContext}} : TRUE

Undefined == <<"undefined">>

\* Request template files: t1 applies to application "a" and redefines the
\* interceptor executeEntryPoint; t2 inherits from t1 and t3 from t2; X1 and
\* X2 inherit from each other.  Requests name t1.
TemplateUris == {<<"t", "1">>}
TemplateFileNames == {<<"t", "1">>, <<"t", "2">>, <<"t", "3">>, <<"X", "1">>, <<"X", "2">>}
TemplateFile(uri) ==
    CASE uri = <<"t", "2">> ->
            [base |-> <<"t", "1">>, application |-> Undefined, overrideObjects |-> <<>>]
      [] uri = <<"t", "3">> ->
            [base |-> <<"t", "2">>, application |-> Undefined, overrideObjects |-> <<>>]
      [] uri = <<"X", "1">> ->
            [base |-> <<"X", "2">>, application |-> Undefined, overrideObjects |-> <<>>]
      [] uri = <<"X", "2">> ->
            [base |-> <<"X", "1">>, application |-> Undefined, overrideObjects |-> <<>>]
      [] OTHER ->
            [base |-> Undefined, application |-> <<"a">>,
             overrideObjects |->
                 <<NamedObjectDef("executeEntryPoint", InterceptorValue("shortCircuit"))>>]

\* new RequestTemplate(uri, app, undefined, def): the contexts of the
\* application with the template's context on top.
RequestTemplate(app, uri) ==
    CHOOSE out \in
        {[cs |-> built.cs, rg |-> built.r.rg, objectContext |-> Len(built.cs)] :
            built \in {Construct(app.cs, app.rg, "template:t1", 2,
                                 ScopedObjectContextDef(
                                     app.cs, 2, <<>>, <<>>,
                                     TemplateFile(uri).overrideObjects, TRUE))}} : TRUE

\* A request object; RequestHelper.fromJsValue fills in the overrides and
\* the control flags a request leaves out.
Request(application, base, entryPoint, overrideObjects) ==
    [k |-> "request", application |-> application, base |-> base, entryPoint |-> entryPoint,
     input |-> Str(<<"h">>), overrideTypes |-> <<>>, overrideProviders |-> <<>>,
     overrideObjects |-> overrideObjects,
     controlFlags |-> [debug |-> FALSE, perf |-> FALSE]]

\* A request string: JSON.parse answers the object or throws a SyntaxError.
RequestString(wellFormed, request) ==
    [k |-> "string", wellFormed |-> wellFormed, value |-> request]

Success(output, ran) ==
    [k |-> "response", responseCode |-> "Success", output |-> output, ran |-> ran]

\* The entry point function called with the input.
EntryPointCall(entryPoint, input) ==
    CASE entryPoint.inner.v = "foo" -> input
      [] entryPoint.inner.v = "alwaysThrow" -> Rejected("You hit an always-throw entrypoint.")
      [] OTHER -> [k |-> "returned", by |-> entryPoint.inner.v, input |-> input]

\* new RequestDebugger(): nothing of the library calls setLastError, detail
\* or event, and the entry points of test-app do not either.
RequestDebugger_new == [lastError |-> Null, details |-> <<>>, events |-> <<>>]

\* RequestDebugger.getOutput: the debug info, or the TypeError of reading
\* the message of a last error that is null.
RequestDebugger_getOutput(debugger) ==
    IF debugger.lastError.k = "null"
    THEN Rejected("TypeError: Cannot read property 'message' of null")
    ELSE [exception |-> debugger.lastError, details |-> debugger.details,
          events |-> debugger.events, machineName |-> "hostname"]

\* What finalizeResponse does with the response of the interceptors below it.
finalizeResponse(controlFlags, debugger, response) ==
    CHOOSE out \in
        {IF controlFlags.debug /\ IsFail(debugInfo) THEN debugInfo
         ELSE IF ~controlFlags.debug /\ ~controlFlags.perf THEN response
         ELSE (IF controlFlags.perf
               THEN [perfInfo |-> [processingLatencyInMS |-> "duration"]]
               ELSE <<>>)
              @@ (IF controlFlags.debug THEN [debugInfo |-> debugInfo] ELSE <<>>)
              @@ response :
            debugInfo \in {RequestDebugger_getOutput(debugger)}} : TRUE

\* RequestContext.continueExecution with the built-in interceptors; ran
\* lists the interceptors entered, outermost first.
RECURSIVE continueExecution(_, _, _, _, _)
continueExecution(executionStack, executionDepth, entryPoint, input, controlFlags) ==
    IF executionDepth >= Len(executionStack) THEN Success(Null, <<>>)
    ELSE LET interceptor == executionStack[executionDepth + 1]
         IN  IF interceptor.inner.v = "shortCircuit" THEN Success(Null, <<interceptor>>)
             ELSE CHOOSE out \in
                      {IF IsFail(response) THEN response
                       ELSE IF interceptor.inner.v = "finalizeResponse"
                       THEN finalizeResponse(controlFlags, RequestDebugger_new,
                                             [response EXCEPT !.ran = <<interceptor>> \o @])
                       ELSE IF interceptor.inner.v # "executeEntryPoint"
                       THEN [response EXCEPT !.ran = <<interceptor>> \o @]
                       ELSE LET output == EntryPointCall(entryPoint, input)
                            IN  IF IsFail(output) THEN output
                                ELSE [response EXCEPT !.output = output,
                                                      !.ran = <<interceptor>> \o @] :
                          response \in {continueExecution(executionStack, executionDepth + 1,
                                                           entryPoint, input,
                                                           controlFlags)}} : TRUE

\* Application.getExecutionStack
Application_getExecutionStack(app, entryPointName) ==
    IF entryPointName \in DOMAIN app.perEntryPointExecutionStack
    THEN [k |-> "stack", stack |-> app.perEntryPointExecutionStack[entryPointName]]
    ELSE Null

\* RequestContext.getInterceptor: the interceptor, Null, or the thrown error.
RequestContext_getInterceptor(cs, rg, c, name) ==
    CHOOSE out \in
        {IF IsFail(object) THEN object
         ELSE IF object.k # "null" /\ object.def.name # "Interceptor"
         THEN Rejected("is not of Interceptor type.")
         ELSE IF object.k = "null" THEN Null ELSE object.value :
            object \in {get(cs, rg, c, name, {}).val}} : TRUE

\* One element of the new stack when the entry point is not overridden by
\* the request.
InterceptorOrCached(cs, rg, c, interceptorName, cached) ==
    CHOOSE out \in
        {IF IsFail(interceptorObject) THEN interceptorObject
         ELSE IF interceptorObject.k = "null" THEN Rejected("Interceptor does not exist.")
         ELSE IF interceptorObject.scope # "request" THEN cached
         ELSE IF TypeOf(interceptorObject.def.value) # "Interceptor"
         THEN Rejected("Bad override on interceptor")
         ELSE interceptorObject.value :
            interceptorObject \in {get(cs, rg, c, interceptorName, {}).val}} : TRUE

\* One element of the new stack when the request overrides the entry point.
InterceptorByName(cs, rg, c, interceptorName) ==
    CHOOSE out \in
        {IF interceptor.k = "null" THEN Rejected("is not a valid interceptor.")
         ELSE interceptor :
            interceptor \in {RequestContext_getInterceptor(cs, rg, c, interceptorName)}} : TRUE

\* The first error of a list of stack elements, or the list as a stack.
StackOrError(elements) ==
    CHOOSE out \in
        {LET bad == {i \in 1..Len(stack) : IsFail(stack[i])}
         IN  IF bad = {} THEN [k |-> "stack", stack |-> stack]
             ELSE stack[CHOOSE i \in bad : \A j \in bad : i <= j] :
            stack \in {elements}} : TRUE

\* RequestContext.prepareExecutionStack: the stack, Null, or the thrown error.
prepareExecutionStack(app, cs, rg, c, entryPointName) ==
    IF Len(cs[c].def.namedObjectDefs) = 0
    THEN Application_getExecutionStack(app, entryPointName)
    ELSE CHOOSE out \in
             {LET interceptorNames == IF entryPointObject.def.value.hasStack
                                      THEN entryPointObject.def.value.executionStack
                                      ELSE app.settings.defaultExecutionStack
              IN  IF entryPointObject.scope # "request"
                  THEN LET oldStack == Application_getExecutionStack(app, entryPointName)
                       IN  IF oldStack.k = "null"
                           THEN Rejected("Cannot read property 'length' of null")
                           ELSE IF Len(oldStack.stack) # Len(interceptorNames)
                           THEN Rejected("AssertionError")
                           ELSE StackOrError([i \in 1..Len(interceptorNames) |->
                                    InterceptorOrCached(cs, rg, c, interceptorNames[i],
                                                        oldStack.stack[i])])
                  ELSE StackOrError([i \in 1..Len(interceptorNames) |->
                           InterceptorByName(cs, rg, c, interceptorNames[i])]) :
                 entryPointObject \in {get(cs, rg, c, entryPointName, {}).val}} : TRUE

\* RequestContext.getEntryPoint: the entry point, Null, or the thrown error.
RequestContext_getEntryPoint(cs, rg, c, entryPointName) ==
    CHOOSE out \in
        {IF IsFail(object) THEN object
         ELSE IF object.k # "null" /\ TypeOf(object.def.value) # "EntryPoint"
         THEN Rejected("is not of EntryPoint type.")
         ELSE IF object.k = "null" THEN Null ELSE object.value :
            object \in {get(cs, rg, c, entryPointName, {}).val}} : TRUE

\* Variant: what the request overrides is passed on whatever the settings.
RequestContext_perRequestObjectContext_Always(app, base, request) ==
    Construct(base.cs, base.rg, "request", base.objectContext,
              ScopedObjectContextDef(base.cs, base.objectContext,
                                     request.overrideTypes, request.overrideProviders,
                                     request.overrideObjects, FALSE))

\* The request-level object context of new RequestContext(base, request):
\* what the request overrides is passed on only when the settings of the
\* application allow per-request override.
RequestContext_perRequestObjectContext(app, base, request) ==
    Construct(base.cs, base.rg, "request", base.objectContext,
              IF app.settings.allowPerRequestOverride
              THEN ScopedObjectContextDef(base.cs, base.objectContext,
                                          request.overrideTypes, request.overrideProviders,
                                          request.overrideObjects, FALSE)
              ELSE ScopedObjectContextDef(base.cs, base.objectContext, <<>>, <<>>, <<>>,
                                          FALSE))

\* new RequestContext(base, request): the contexts with the request level on
\* top (c), the entry point and the execution stack, or the error thrown.
\* A request object without the entryPoint property.
NoEntryPoint == "undefined"

\* RequestHelper.validate: the shape of interface Request, entryPoint
\* required, application and base each optional.
RequestHelper_validate(jsValue) == jsValue.entryPoint # NoEntryPoint

RequestContext_new(app, base, request) ==
    IF ~RequestHelper_validate(request)
    THEN [ok |-> FALSE, error |-> Rejected("Request doesn't match request schema")]
    ELSE
    CHOOSE out \in
        {IF IsFail(built.r.val) THEN [ok |-> FALSE, error |-> built.r.val]
         ELSE CHOOSE made \in
                  {IF IsFail(entryPoint) THEN [ok |-> FALSE, error |-> entryPoint]
                   ELSE IF entryPoint.k = "null"
                   THEN [ok |-> FALSE, error |-> Rejected("Entrypoint does not exist")]
                   ELSE CHOOSE prepared \in
                            {IF IsFail(executionStack)
                             THEN [ok |-> FALSE, error |-> executionStack]
                             ELSE [ok |-> TRUE, cs |-> built.cs, rg |-> built.r.rg,
                                   c |-> Len(built.cs), entryPoint |-> entryPoint,
                                   executionStack |-> executionStack] :
                                executionStack \in
                                    {prepareExecutionStack(app, built.cs, built.r.rg,
                                                           Len(built.cs), request.entryPoint)}} :
                            TRUE :
                      entryPoint \in {RequestContext_getEntryPoint(
                                          built.cs, built.r.rg, Len(built.cs),
                                          request.entryPoint)}} : TRUE :
            built \in {RequestContext_perRequestObjectContext(app, base, request)}} : TRUE

\* new RequestContext(base, request) followed by context.execute(): the
\* response, or the error thrown on the way.
RequestContext_run(context, request) ==
    IF ~context.ok THEN context.error
    ELSE IF context.executionStack.k = "null"
    THEN Rejected("Cannot read property 'length' of null")
    ELSE continueExecution(context.executionStack.stack, 0, context.entryPoint,
                           request.input, request.controlFlags)

RequestContext_execute(app, base, request) ==
    CHOOSE out \in
        {RequestContext_run(context, request) :
            context \in {RequestContext_new(app, base, request)}} : TRUE

\* The second half of Leaf.serve: resolve(new RequestContext(base, request))
\* and then context.execute().  application is the name base.application is
\* registered under, the application of the context, when the constructor
\* returns one.
Leaf_execute(leaf, app, base, request, application) ==
    CHOOSE answered \in
        {CHOOSE out \in
             {[ok |-> ~IsFail(response), val |-> response, host |-> leaf,
               application |-> IF context.ok THEN application ELSE Undefined] :
                 response \in {RequestContext_run(context, request)}} : TRUE :
            context \in {RequestContext_new(app, base, request)}} : TRUE

\* new RequestContext(base, request) followed by one call on the context:
\* execute(), getNamedObject(name) or create(input).
RequestContext_call(app, base, request, call) ==
    CHOOSE out \in
        {IF ~context.ok THEN context.error
         ELSE IF call.k = "getNamedObject"
         THEN get(context.cs, context.rg, context.c, call.name, {}).val
         ELSE IF call.k = "create"
         THEN create(context.cs, context.rg, context.c, call.input, {}).val
         ELSE IF context.executionStack.k = "null"
         THEN Rejected("Cannot read property 'length' of null")
         ELSE continueExecution(context.executionStack.stack, 0, context.entryPoint,
                                request.input, request.controlFlags) :
            context \in {RequestContext_new(app, base, request)}} : TRUE

\* The template a request context is built on: the default template of the
\* application, or the template the request names.
BaseTemplate(app, request) ==
    IF request.base = Undefined
    THEN [cs |-> app.cs, rg |-> app.rg, objectContext |-> app.defaultRequestTemplate]
    ELSE RequestTemplate(app, request.base)

\* key in array, as JavaScript evaluates it: the property names of an array
\* are its indices and "length" (no scope is named like a method of Array).
IndexNames == <<"0", "1", "2", "3">>
HasProperty(array, key) ==
    key \in {IndexNames[i] : i \in 1..Len(array)} \cup {"length"}

\* The input listNamedObjects works on when it is called without one.
NoInput == [k |-> "undefined"]
DefaultListInput == [allowPrivate |-> FALSE, scopes |-> <<"request", "application">>]

\* The built-in entry point listNamedObjects: objects is what forEach of the
\* application's object context hands to the callback, in order.
RECURSIVE listNamedObjects(_, _)
listNamedObjects(objects, input) ==
    IF input = NoInput THEN listNamedObjects(objects, DefaultListInput)
    ELSE IF objects = <<>> THEN <<>>
    ELSE LET namedObject == Head(objects)
         IN  (IF /\ (input.allowPrivate \/ ~namedObject.def.private)
                 /\ HasProperty(input.scopes, namedObject.scope)
              THEN <<namedObject.def.name>>
              ELSE <<>>) \o listNamedObjects(Tail(objects), input)

\* The object context of an application with the given named objects, on
\* top of the global context.
ApplicationContextOf(objectDefs) ==
    CHOOSE out \in
        {Construct(global.cs, global.r.rg, "./application", 1,
                   ScopedObjectContextDef(global.cs, 1, <<>>, <<>>, objectDefs, TRUE)) :
            global \in {GlobalContext}} : TRUE

\* The manager constructs up to MaxInstances templates before the last load.
MaxInstances == 4

\* An execution stack has up to MaxStack interceptors; an interceptor of the
\* application calls continueExecution up to MaxContinue times.
MaxStack == 3
MaxContinue == 2

\* The execution state of a new RequestContext: the stack, the depth, the
\* interceptors that were invoked and have not returned (innermost last, each
\* with the number of times it has called continueExecution), and what
\* happened so far: the interceptor each call of continueExecution invoked
\* (0: none, the call resolved with Success), the interceptors that returned,
\* and the interceptors that ran the entry point.
RequestContext_executionState(executionStack) ==
    [executionStack |-> executionStack, executionDepth |-> 0, frames |-> <<>>,
     log |-> <<>>, returned |-> <<>>, entryPointBy |-> <<>>]

\* Variant: the depth is incremented before the stack is read.
RequestContext_continueExecution_PreIncrement(context) ==
    IF context.executionDepth + 1 < Len(context.executionStack)
    THEN [context EXCEPT
              !.executionDepth = @ + 1,
              !.frames = Append(@, [position |-> context.executionDepth + 2, continued |-> 0]),
              !.log = Append(@, context.executionDepth + 2)]
    ELSE [context EXCEPT !.log = Append(@, 0)]

\* RequestContext.continueExecution, one call.
RequestContext_continueExecution(context) ==
    IF context.executionDepth < Len(context.executionStack)
    THEN [context EXCEPT
              !.executionDepth = @ + 1,
              !.frames = Append(@, [position |-> context.executionDepth + 1, continued |-> 0]),
              !.log = Append(@, context.executionDepth + 1)]
    ELSE [context EXCEPT !.log = Append(@, 0)]

\* Variant: a malformed string is read as the request it resembles.
JSON_parse_Lenient(request) == IF request.k # "string" THEN request ELSE request.value

\* JSON.parse of a request string inside appendMessageOnException.
JSON_parse(request) ==
    IF request.k # "string" THEN request
    ELSE IF request.wellFormed THEN request.value
    ELSE [k |-> "err", msg |-> "Unexpected token }",
          appended |-> ". Fail to parse request string."]

\* RequestTemplateFileLoader.loadInternal: the RequestTemplate instances of
\* the template and of its bases, each read from its file and numbered as it
\* is constructed, or the error thrown.  applications is what appGetter looks
\* the application up in.
RECURSIVE RequestTemplateFileLoader_loadInternal(_, _, _, _)
RequestTemplateFileLoader_loadInternal(uri, applications, seenUris, created) ==
    IF toLowerCase(uri) \in seenUris
    THEN [ok |-> FALSE, error |-> Rejected("Circle found in template inheritance.")]
    ELSE IF uri \notin TemplateFileNames
    THEN [ok |-> FALSE, error |-> Rejected("no such file")]
    ELSE IF TemplateFile(uri).base # Undefined
    THEN CHOOSE out \in
             {IF ~base.ok THEN base
              ELSE [ok |-> TRUE, created |-> base.created + 1,
                    template |-> [k |-> "template", id |-> base.created + 1,
                                  uri |-> uri, base |-> base.template,
                                  application |-> base.template.application]] :
                 base \in {RequestTemplateFileLoader_loadInternal(
                               TemplateFile(uri).base, applications,
                               seenUris \cup {toLowerCase(uri)}, created)}} : TRUE
    ELSE IF TemplateFile(uri).application = Undefined
    THEN [ok |-> FALSE,
          error |-> Rejected("Property \"application\" or \"base\" must be present")]
    ELSE IF toLowerCase(TemplateFile(uri).application) \notin DOMAIN applications
    THEN [ok |-> FALSE, error |-> Rejected("is not registered in current host.")]
    ELSE [ok |-> TRUE, created |-> created + 1,
          template |-> [k |-> "template", id |-> created + 1, uri |-> uri, base |-> Null,
                        application |-> toLowerCase(TemplateFile(uri).application)]]

\* RequestTemplateFileLoader.load; baseTemplateGetter is passed down and
\* never called.
RequestTemplateFileLoader_load(uri, applications, baseTemplateGetter, created) ==
    RequestTemplateFileLoader_loadInternal(uri, applications, {}, created)

\* RequestTemplateFileLoader.getApplicationName: the name, the error of a
\* missing file, or, when the recursion has gone through more files than
\* there are (it then goes round for ever), the stack of the engine running
\* out.
RECURSIVE RequestTemplateFileLoader_getApplicationName(_, _)
RequestTemplateFileLoader_getApplicationName(uri, depth) ==
    IF uri \notin TemplateFileNames THEN Rejected("no such file")
    ELSE IF TemplateFile(uri).base # Undefined
    THEN IF depth >= Cardinality(TemplateFileNames)
         THEN [k |-> "overflow", msg |-> "Maximum call stack size exceeded"]
         ELSE RequestTemplateFileLoader_getApplicationName(TemplateFile(uri).base, depth + 1)
    ELSE IF TemplateFile(uri).application = Undefined THEN Rejected("AssertionError")
    ELSE [k |-> "name", name |-> TemplateFile(uri).application]

\* RequestTemplateManager.get
RequestTemplateManager_get(manager, uri) ==
    IF uri \in DOMAIN manager.cache THEN manager.cache[uri].template ELSE Null

\* The loop of RequestTemplateManager.load: the chain from the template to
\* its top-most base is counted in the cache.
RECURSIVE CacheChain(_, _)
CacheChain(cache, t) ==
    IF t = Null THEN cache
    ELSE CacheChain(IF t.uri \in DOMAIN cache
                    THEN [cache EXCEPT ![t.uri].refCount = @ + 1]
                    ELSE (t.uri :> [template |-> t, refCount |-> 1]) @@ cache,
                    t.base)

\* RequestTemplateManager.load
RequestTemplateManager_load(manager, applications, uri) ==
    CHOOSE out \in
        {IF ~thisTemplate.ok
         THEN [ok |-> FALSE, error |-> thisTemplate.error, manager |-> manager]
         ELSE [ok |-> TRUE, template |-> thisTemplate.template,
               manager |-> [cache |-> CacheChain(manager.cache, thisTemplate.template),
                            created |-> thisTemplate.created]] :
            thisTemplate \in
                {RequestTemplateFileLoader_load(
                     uri, applications,
                     [baseUri \in DOMAIN manager.cache |->
                         RequestTemplateManager_get(manager, baseUri)],
                     manager.created)}} : TRUE

\* RequestTemplateManager.getOrLoad: the template and the manager
\* afterwards, or the error of the loader.
RequestTemplateManager_getOrLoad(manager, applications, uri) ==
    IF RequestTemplateManager_get(manager, uri) # Null
    THEN [ok |-> TRUE, template |-> RequestTemplateManager_get(manager, uri),
          manager |-> manager]
    ELSE RequestTemplateManager_load(manager, applications, uri)

\* The loop of RequestTemplateManager.unload: the chain is counted down and
\* an entry that reaches 0 is deleted; the assertion fails when a base is not
\* in the cache.
RECURSIVE UnloadChain(_, _)
UnloadChain(manager, uri) ==
    IF uri \notin DOMAIN manager.cache
    THEN [ok |-> FALSE, error |-> Rejected("AssertionError"), manager |-> manager]
    ELSE LET r == manager.cache[uri]
             counted ==
                 [manager EXCEPT !.cache =
                     IF r.refCount - 1 = 0
                     THEN [u \in DOMAIN manager.cache \ {uri} |-> manager.cache[u]]
                     ELSE [manager.cache EXCEPT ![uri].refCount = @ - 1]]
         IN  IF r.template.base = Null THEN [ok |-> TRUE, manager |-> counted]
             ELSE UnloadChain(counted, r.template.base.uri)

\* RequestTemplateManager.unload
RequestTemplateManager_unload(manager, uri) ==
    IF uri \notin DOMAIN manager.cache THEN [ok |-> TRUE, manager |-> manager]
    ELSE UnloadChain(manager, uri)

\* Leaf.serve: the promise resolved with a response (ok) or rejected, and
\* the Leaf afterwards.
Leaf_serve(leaf, input) ==
    CHOOSE out \in
        {IF IsFail(request)
         THEN [ok |-> FALSE, val |-> request, host |-> leaf, application |-> Undefined]
         ELSE IF request.base # Undefined
         THEN CHOOSE served \in
                  {IF ~loaded.ok
                   THEN [ok |-> FALSE, val |-> loaded.error, host |-> leaf,
                         application |-> Undefined]
                   ELSE Leaf_execute(loaded.host, app, RequestTemplate(app, request.base),
                                     request, loaded.application) :
                      loaded \in {[ok |-> got.ok,
                                   error |-> IF got.ok THEN Null ELSE got.error,
                                   application |-> IF got.ok THEN got.template.application
                                                   ELSE Undefined,
                                   host |-> [leaf EXCEPT !.templates = got.manager]] :
                                      got \in {RequestTemplateManager_getOrLoad(
                                                   leaf.templates, leaf.applications,
                                                   request.base)}}} : TRUE
         ELSE IF request.application = Undefined
         THEN [ok |-> FALSE, host |-> leaf, application |-> Undefined,
               val |-> Rejected("Either 'application' or 'base' should be present in request.")]
         ELSE IF toLowerCase(request.application) \notin DOMAIN leaf.applications
         THEN [ok |-> FALSE, host |-> leaf, application |-> Undefined,
               val |-> Rejected("is not a known application")]
         ELSE Leaf_execute(leaf, app,
                           [cs |-> app.cs, rg |-> app.rg,
                            objectContext |-> app.defaultRequestTemplate],
                           request, toLowerCase(request.application)) :
            request \in {JSON_parse(input)}, app \in {Application}} : TRUE

RECURSIVE Hub_serve(_, _)

\* Proxy.serve: the worker's hub() serves the request.
Proxy_serve(proxy, input) ==
    CHOOSE out \in
        {[ok |-> served.ok, val |-> served.val, application |-> served.application,
          host |-> [proxy EXCEPT !.worker = served.hub]] :
            served \in {Hub_serve(proxy.worker, input)}} : TRUE

\* Hub.serve: the promise resolved or rejected, the Hub afterwards, the
\* host the request was handed to, the name it was looked up by (appName),
\* and the application of the RequestContext the Leaf constructed.
Hub_serve(hub, input) ==
    LET request == JSON_parse(input)
    IN  IF IsFail(request)
        THEN [ok |-> FALSE, val |-> request, hub |-> hub, host |-> "none",
              appName |-> Undefined, application |-> Undefined]
        ELSE IF request.application = Undefined /\ request.base = Undefined
        THEN [ok |-> FALSE, hub |-> hub, host |-> "none",
              appName |-> Undefined, application |-> Undefined,
              val |-> Rejected("Either 'application' or 'base' should be present in request.")]
        ELSE IF request.application = Undefined /\ request.base \notin TemplateUris
        THEN [ok |-> FALSE, hub |-> hub, host |-> "none",
              appName |-> Undefined, application |-> Undefined,
              val |-> Rejected("no such file")]
        ELSE LET lcUri == toLowerCase(request.base)
                 appName ==
                     IF request.application # Undefined THEN request.application
                     ELSE IF lcUri \in DOMAIN hub.templateToAppNameMap
                     THEN hub.templateToAppNameMap[lcUri]
                     ELSE TemplateFile(request.base).application
                 mapped ==
                     IF request.application # Undefined THEN hub
                     ELSE [hub EXCEPT !.templateToAppNameMap = (lcUri :> appName) @@ @]
                 lowerCaseName == toLowerCase(appName)
             IN  IF lowerCaseName \notin DOMAIN mapped.hostMap
                 THEN [ok |-> FALSE, hub |-> mapped, host |-> "none",
                       appName |-> Undefined, application |-> Undefined,
                       val |-> Rejected("is not registered for serving")]
                 ELSE CHOOSE out \in
                          {[ok |-> served.ok, val |-> served.val, host |-> zone,
                            appName |-> lowerCaseName,
                            application |-> served.application,
                            hub |-> IF zone = NoZone
                                    THEN [mapped EXCEPT !.localHost = <<served.host>>]
                                    ELSE [mapped EXCEPT !.proxies[zone] = served.host]] :
                              zone \in {mapped.hostMap[lowerCaseName]},
                              served \in {IF mapped.hostMap[lowerCaseName] = NoZone
                                          THEN Leaf_serve(mapped.localHost[1], input)
                                          ELSE Proxy_serve(
                                                   mapped.proxies[mapped.hostMap[lowerCaseName]],
                                                   input)}} : TRUE

(***************************************************************************)
(* State: ctxs, the contexts built so far (parent by index, 0 = none);    *)
(* regs[c], the named object registry of context c; last, the last call   *)
(* and what it returned or threw.                                          *)
(***************************************************************************)
Called(op, c, name, input, r) ==
    [op |-> op, ctx |-> c, name |-> name, input |-> input, val |-> r.val, calls |-> r.calls]

RootDef == ScopedObjectContextDef(<<>>, 0, RootTypeDefs, RootProviderDefs, RootObjectDefs, TRUE)

Root == Construct(<<>>, <<>>, "./application", 0, RootDef)

\* No call is in progress.
Idle == [op |-> "idle", ctx |-> 0, name |-> "", input |-> Null, val |-> Null, calls |-> <<>>]

Init ==
    /\ ctxs = Root.cs
    /\ regs = Root.r.rg
    /\ last = Called("new", 1, "", Null, Root.r)
    /\ hosts = [leaf |-> Leaf_new, hub |-> Hub_new]

\* The caller takes the result; calls are made one at a time (single-threaded,
\* synchronous resolution).
Return ==
    /\ last # Idle
    /\ last' = Idle
    /\ UNCHANGED <<ctxs, regs, hosts>>

\* leaf.register(appModulePath, appInstanceNames, zone)
LeafRegister(appInstanceNames, zone) ==
    /\ last = Idle
    /\ \E r \in {Leaf_register(hosts.leaf, "test-app", appInstanceNames, zone)} :
           /\ hosts' = [hosts EXCEPT !.leaf = r.host]
           /\ last' = Called("Leaf.register", 0, "",
                             [k |-> "registration", names |-> appInstanceNames, zone |-> zone,
                              before |-> hosts.leaf],
                             R(r.error, <<>>, regs))
    /\ UNCHANGED <<ctxs, regs>>

\* hub.register(appModuleName, appInstanceNames, zone)
HubRegister(appInstanceNames, zone) ==
    /\ last = Idle
    /\ Len(hosts.hub.applicationInstanceNames) + Len(appInstanceNames) <= MaxListed
    /\ \E r \in {Hub_register(hosts.hub, "test-app", appInstanceNames, zone)} :
           /\ hosts' = [hosts EXCEPT !.hub = r.hub]
           /\ last' = Called("Hub.register", 0, "",
                             [k |-> "registration", names |-> appInstanceNames, zone |-> zone,
                              before |-> hosts.hub],
                             R(r.error, <<>>, regs))
    /\ UNCHANGED <<ctxs, regs>>

\* leaf.serve(request)
LeafServe(request) ==
    /\ last = Idle
    /\ \E r \in {Leaf_serve(hosts.leaf, request)} :
           /\ hosts' = [hosts EXCEPT !.leaf = r.host]
           /\ last' = Called("Leaf.serve", 0, "",
                             [k |-> "serve", request |-> request, before |-> hosts.leaf],
                             R(r.val, <<>>, regs))
    /\ UNCHANGED <<ctxs, regs>>

\* hub.serve(request); calls holds the host the request was handed to, and
\* routed the name the host was looked up by and the application of the
\* RequestContext the request was executed with.
HubServe(request) ==
    /\ last = Idle
    /\ \E r \in {Hub_serve(hosts.hub, request)} :
           /\ hosts' = [hosts EXCEPT !.hub = r.hub]
           /\ last' = Called("Hub.serve", 0, "",
                             [k |-> "serve", request |-> request, before |-> hosts.hub,
                              routed |-> [appName |-> r.appName,
                                          application |-> r.application]],
                             R(r.val, IF r.host = "none" THEN <<>> ELSE <<r.host>>, regs))
    /\ UNCHANGED <<ctxs, regs>>

\* new RequestContext(base, request) for an application whose settings allow
\* per-request override or do not, followed by one call on the context;
\* calls tells whether the constructor returned.
RequestContextCall(allowPerRequestOverride, request, call) ==
    /\ last = Idle
    /\ \E app \in {[Application EXCEPT
                        !.settings.allowPerRequestOverride = allowPerRequestOverride]} :
       \E base \in {BaseTemplate(app, request)} :
       \E context \in {RequestContext_new(app, base, request)},
          r \in {RequestContext_call(app, base, request, call)} :
           last' = Called("RequestContext", 0, "",
                          [k |-> "context", request |-> request, call |-> call,
                           allowPerRequestOverride |-> allowPerRequestOverride],
                          R(r, IF context.ok THEN <<"constructed">> ELSE <<>>, regs))
    /\ UNCHANGED <<ctxs, regs, hosts>>

\* requestTemplateManager.getOrLoad(uri) on the Leaf's manager.
GetOrLoad(uri) ==
    /\ last = Idle
    /\ hosts.leaf.templates.created < MaxInstances
    /\ \E r \in {RequestTemplateManager_getOrLoad(hosts.leaf.templates,
                                                  hosts.leaf.applications, uri)} :
           /\ hosts' = [hosts EXCEPT !.leaf.templates = r.manager]
           /\ last' = Called("RequestTemplateManager.getOrLoad", 0, "",
                             [k |-> "template", uri |-> uri, before |-> hosts.leaf.templates],
                             R(IF r.ok THEN r.template ELSE r.error, <<>>, regs))
    /\ UNCHANGED <<ctxs, regs>>

\* requestTemplateManager.unload(uri)
Unload(uri) ==
    /\ last = Idle
    /\ \E r \in {RequestTemplateManager_unload(hosts.leaf.templates, uri)} :
           /\ hosts' = [hosts EXCEPT !.leaf.templates = r.manager]
           /\ last' = Called("RequestTemplateManager.unload", 0, "",
                             [k |-> "template", uri |-> uri, before |-> hosts.leaf.templates],
                             R(IF r.ok THEN Null ELSE r.error, <<>>, regs))
    /\ UNCHANGED <<ctxs, regs>>

\* loader.getApplicationName(uri), as Hub.serve calls it for a request that
\* names a template and no application.
GetApplicationName(uri) ==
    /\ last = Idle
    /\ last' = Called("getApplicationName", 0, "",
                      [k |-> "template", uri |-> uri, before |-> hosts.leaf.templates],
                      R(RequestTemplateFileLoader_getApplicationName(uri, 0), <<>>, regs))
    /\ UNCHANGED <<ctxs, regs, hosts>>

\* The entry point listNamedObjects called for a request of an application
\* that defines objectDefs.
ListNamedObjects(objectDefs, input) ==
    /\ last = Idle
    /\ \E app \in {ApplicationContextOf(objectDefs)} :
       \E objects \in {forEach(app.cs, app.r.rg, 2).val} :
           last' = Called("listNamedObjects", 0, "",
                          [k |-> "list", objectDefs |-> objectDefs, input |-> input],
                          R([k |-> "list", items |-> listNamedObjects(objects, input)],
                            <<>>, regs))
    /\ UNCHANGED <<ctxs, regs, hosts>>

\* context.execute() on a new request context with the given stack: the
\* first call of continueExecution.  The Leaf executes one request at a time
\* here.
Execute(executionStack) ==
    /\ \A i \in 1..Len(hosts.leaf.executing) : hosts.leaf.executing[i].frames = <<>>
    /\ hosts' = [hosts EXCEPT !.leaf.executing =
                     <<RequestContext_continueExecution(
                           RequestContext_executionState(executionStack))>>]
    /\ UNCHANGED <<ctxs, regs, last>>

\* The innermost interceptor that has not returned calls
\* context.continueExecution(): the built-in interceptors other than
\* shortCircuit do so once, an interceptor of the application ("custom") any
\* number of times up to MaxContinue.
InterceptorContinues ==
    /\ hosts.leaf.executing # <<>>
    /\ hosts.leaf.executing[1].frames # <<>>
    /\ LET context == hosts.leaf.executing[1]
           top == Len(context.frames)
           frame == context.frames[top]
           function == context.executionStack[frame.position]
       IN  /\ function # "shortCircuit"
           /\ frame.continued < (IF function = "custom" THEN MaxContinue ELSE 1)
           /\ hosts' = [hosts EXCEPT !.leaf.executing =
                            <<RequestContext_continueExecution(
                                  [context EXCEPT !.frames[top].continued = @ + 1])>>]
    /\ UNCHANGED <<ctxs, regs, last>>

\* The innermost interceptor that has not returned returns its response:
\* shortCircuit at once, the other built-in interceptors after the call of
\* continueExecution (executeEntryPoint then runs the entry point), an
\* interceptor of the application at any point.
InterceptorReturns ==
    /\ hosts.leaf.executing # <<>>
    /\ hosts.leaf.executing[1].frames # <<>>
    /\ LET context == hosts.leaf.executing[1]
           top == Len(context.frames)
           frame == context.frames[top]
           function == context.executionStack[frame.position]
       IN  /\ function \in {"shortCircuit", "custom"} \/ frame.continued = 1
           /\ hosts' = [hosts EXCEPT !.leaf.executing =
                            <<[context EXCEPT
                                   !.frames = SubSeq(@, 1, top - 1),
                                   !.returned = Append(@, frame),
                                   !.entryPointBy =
                                       IF function = "executeEntryPoint"
                                       THEN Append(@, frame.position) ELSE @]>>]
    /\ UNCHANGED <<ctxs, regs, last>>

\* RequestTemplate / RequestContext constructor: a level on top of a context
\* built with dependency analysis; a request level is built without.
NewContext(parent, analyse, ch) ==
    /\ last = Idle
    /\ IF analyse
       THEN Cardinality({c \in 2..Len(ctxs) : ctxs[c].def.analyse}) < MaxTemplates
       ELSE Cardinality({c \in 2..Len(ctxs) : ~ctxs[c].def.analyse}) < MaxRequests
    /\ ctxs[parent].def.analyse
    /\ LET l == Len(ctxs) + 1
           in == [k |-> "level", parent |-> parent, analyse |-> analyse, level |-> ch]
       IN  \E def \in {ScopedObjectContextDef(
                           ctxs, parent,
                           [i \in 1..Len(ch.types) |-> TypeDef(ch.types[i], l)],
                           [i \in 1..Len(ch.providers) |-> ProviderDef(ch.providers[i], l)],
                           ch.objects,
                           analyse)} :
             IF ~def.ok
             THEN /\ last' = Called("new", 0, "", in, R(def.error, <<>>, regs))
                  /\ UNCHANGED <<ctxs, regs, hosts>>
             ELSE \E k \in {Construct(ctxs, regs, ScopeName(ctxs, analyse), parent, def)} :
                    IF IsFail(k.r.val)
                    THEN /\ last' = Called("new", 0, "", in, k.r)
                         /\ regs' = SubSeq(k.r.rg, 1, Len(ctxs))
                         /\ UNCHANGED <<ctxs, hosts>>
                    ELSE /\ last' = Called("new", l, "", in, k.r)
                         /\ ctxs' = k.cs
                         /\ regs' = k.r.rg
                         /\ UNCHANGED hosts

\* context.create(input)
Create(c, input) ==
    /\ last = Idle
    /\ \E r \in {create(ctxs, regs, c, input, {})} :
          /\ last' = Called("create", c, "", input, r)
          /\ regs' = r.rg
          /\ UNCHANGED <<ctxs, hosts>>

\* context.get(name)
Get(c, name) ==
    /\ last = Idle
    /\ \E r \in {get(ctxs, regs, c, name, {})} :
          /\ last' = Called("get", c, name, Null, r)
          /\ regs' = r.rg
          /\ UNCHANGED <<ctxs, hosts>>

\* context.forEach(callback): the objects handed to the callback, in order.
ForEach(c) ==
    /\ last = Idle
    /\ \E r \in {forEach(ctxs, regs, c)} :
          /\ last' = Called("forEach", c, "", Null,
                            R([k |-> "list", items |-> r.val], r.calls, r.rg))
          /\ regs' = r.rg
          /\ UNCHANGED <<ctxs, hosts>>

\* TypeRegistry.create called on the registry of one level.
TypeRegistryCreate(c, input) ==
    /\ last = Idle
    /\ input.k \in {"obj", "arr"}
    /\ \E r \in {TypeRegistry_create(ctxs[c].typeRegistry, input, ctxs, regs, c, {})} :
          /\ last' = Called("TypeRegistry.create", c, "", input, r)
          /\ regs' = r.rg
          /\ UNCHANGED <<ctxs, hosts>>

\* ProviderRegistry.provide called on the registry of one level.
ProviderRegistryProvide(c, input) ==
    /\ last = Idle
    /\ input.k = "str"
    /\ Uri_isUri(input.s)
    /\ \E r \in {ProviderRegistry_provide(ctxs[c].providerRegistry,
                                          <<Uri_tryParse(input.s)>>, FALSE, regs)} :
          /\ last' = Called("ProviderRegistry.provide", c, "", input, r)
          /\ UNCHANGED <<ctxs, regs, hosts>>

\* One chain of levels: the application, templates based on one another, and
\* a request served by the last of them; calls on every level of the chain.
Next ==
    \/ Return
    \/ \E analyse \in BOOLEAN, ch \in LevelCatalog : NewContext(Len(ctxs), analyse, ch)
    \/ \E c \in 1..Len(ctxs), input \in CreateInputs : Create(c, input)
    \/ \E c \in 1..Len(ctxs), name \in ObjectNames : Get(c, name)
    \/ \E c \in 1..Len(ctxs) : ForEach(c)
    \/ \E c \in 1..Len(ctxs), input \in CreateInputs : TypeRegistryCreate(c, input)
    \/ \E c \in 1..Len(ctxs), input \in CreateInputs : ProviderRegistryProvide(c, input)

Spec == Init /\ [][Next]_vars

\* Requests served side by side by the application, their calls interleaved.
NextRequests ==
    \/ Return
    \/ \E ch \in RequestCatalog : NewContext(1, FALSE, ch)
    \/ \E c \in 1..Len(ctxs), input \in CreateInputs : Create(c, input)
    \/ \E c \in 1..Len(ctxs), name \in ObjectNames : Get(c, name)
    \/ \E c \in 1..Len(ctxs) : ForEach(c)

SpecRequests == Init /\ [][NextRequests]_vars

(***************************************************************************)
(* The application's ProviderRegistry used on its own: register, supports *)
(* and provide with a single Uri or an array of Uris (the calls of the     *)
(* 'winery/object-provider' tests).                                        *)
(***************************************************************************)
Protocols == {<<"p", "a">>, <<"P", "a">>, <<"P", "A">>, <<"p", "b">>, <<"x">>}

\* provideProtocolA and provideProtocolAPrime as loaders to register.
Loaders == {ProviderFn(8, <<"p", "a">>), ProviderFn(9, <<"p", "a">>)}

UriOf(protocol) == protocol \o <<":", "/", "x">>

\* The sequences of at most n elements of S.
RECURSIVE SeqsUpTo(_, _)
SeqsUpTo(S, n) ==
    IF n = 0 THEN {<<>>}
    ELSE LET shorter == SeqsUpTo(S, n - 1)
         IN  shorter \cup {Append(q, e) : q \in shorter, e \in S}

Bool(b) == [k |-> "bool", b |-> b]

\* registry.register(protocol, loader); val keeps the loader the key held.
ProviderRegistryRegister(protocol, loader) ==
    /\ last = Idle
    /\ ctxs' = [ctxs EXCEPT ![1].providerRegistry =
                    ProviderRegistry_register(@, protocol, loader)]
    /\ last' = Called("ProviderRegistry.register", 1, "",
                      [k |-> "registration", protocol |-> protocol, loader |-> loader],
                      R(IF toLowerCase(protocol) \in DOMAIN ctxs[1].providerRegistry
                        THEN ctxs[1].providerRegistry[toLowerCase(protocol)] ELSE Null,
                        <<>>, regs))
    /\ UNCHANGED <<regs, hosts>>

\* registry.supports(protocol)
ProviderRegistrySupports(protocol) ==
    /\ last = Idle
    /\ last' = Called("ProviderRegistry.supports", 1, "", Str(protocol),
                      R(Bool(ProviderRegistry_supports(ctxs[1].providerRegistry, protocol)),
                        <<>>, regs))
    /\ UNCHANGED <<ctxs, regs, hosts>>

\* registry.provide(uri) for a single Uri, registry.provide(uris) for an array.
ProviderRegistryProvideUris(protocols, isArray) ==
    /\ last = Idle
    /\ isArray \/ Len(protocols) = 1
    /\ \E r \in {ProviderRegistry_provide(
                     ctxs[1].providerRegistry,
                     [i \in 1..Len(protocols) |-> Uri_tryParse(UriOf(protocols[i]))],
                     isArray, regs)} :
          /\ last' = Called("ProviderRegistry.provide", 1, "",
                            [k |-> "uris", isArray |-> isArray, protocols |-> protocols], r)
          /\ UNCHANGED <<ctxs, regs, hosts>>

NextProvider ==
    \/ Return
    \/ \E protocol \in Protocols, loader \in Loaders :
          ProviderRegistryRegister(protocol, loader)
    \/ \E protocol \in Protocols : ProviderRegistrySupports(protocol)
    \/ \E protocols \in SeqsUpTo(Protocols, MaxUris), isArray \in BOOLEAN :
          ProviderRegistryProvideUris(protocols, isArray)

SpecProvider == Init /\ [][NextProvider]_vars

(***************************************************************************)
(* Uri on its own: strings put together from a protocol, a separator, a    *)
(* path and the pieces of a query are parsed, and parameters are read from *)
(* the parsed Uri (the calls of the 'winery/object-provider' Uri tests).   *)
(***************************************************************************)
UriProtocols == {<<>>, <<"a">>, <<"P", "a">>}
UriSeparators == {<<":", "/">>, <<":">>, <<>>}
UriPaths == {<<>>, <<"x">>, <<"x", ":", "/", "y">>}
ParameterNames == {<<"k">>, <<"K">>, <<"b">>}
ParameterValues == {<<"1">>, <<"2">>, <<>>}

Pair(key, value) == [pair |-> TRUE, key |-> key, value |-> value,
                     text |-> key \o <<"=">> \o value]
NoPair(text) == [pair |-> FALSE, text |-> text]

\* The pieces a query is made of: pairs, and texts that are no pair.
Pieces ==
    {Pair(key, value) : key \in ParameterNames, value \in ParameterValues}
        \cup {NoPair(<<"k">>), NoPair(<<"k", "=", "1", "=", "2">>), NoPair(<<>>)}

\* Array.prototype.join of the texts of the pieces.
RECURSIVE join(_, _)
join(pieces, sep) ==
    IF Len(pieces) = 0 THEN <<>>
    ELSE IF Len(pieces) = 1 THEN pieces[1].text
    ELSE pieces[1].text \o <<sep>> \o join(Tail(pieces), sep)

\* The URI string: <protocol>:/<path>[?<param1>=<value1>[&<param2>=<value2>]*]
UriString(in) ==
    in.protocol \o in.separator \o in.path
        \o (IF in.query THEN <<"?">> \o join(in.pieces, "&") ELSE <<>>)

UriInput(protocol, separator, path, query, pieces) ==
    [k |-> "uriString", protocol |-> protocol, separator |-> separator, path |-> path,
     query |-> query, pieces |-> pieces]

\* Uri.tryParse(input) and Uri.parse(input) on the same string.
UriParse(in) ==
    /\ last = Idle
    /\ in.query <=> Len(in.pieces) > 0
    /\ in.separator # <<":", "/">> => in.path \in {<<>>, <<"x">>}
    /\ last' = Called("Uri.parse", 0, "", in,
                      R([k |-> "parsed",
                         tryParse |-> Uri_tryParse(UriString(in)),
                         parse |-> Uri_parse(UriString(in))], <<>>, regs))
    /\ UNCHANGED <<ctxs, regs, hosts>>

\* uri.getParameter(name) on the Uri just parsed.
UriGetParameter(name) ==
    /\ last.op = "Uri.parse"
    /\ last.val.tryParse.success
    /\ last' = Called("Uri.getParameter", 0, "",
                      [k |-> "parameter", of |-> last.input, name |-> name],
                      R(Str(Uri_getParameter(last.val.tryParse, name)), <<>>, regs))
    /\ UNCHANGED <<ctxs, regs, hosts>>

NextUri ==
    \/ Return
    \/ /\ last = Idle
       /\ \E protocol \in UriProtocols, separator \in UriSeparators, path \in UriPaths,
             query \in BOOLEAN, pieces \in SeqsUpTo(Pieces, MaxPairs) :
             UriParse(UriInput(protocol, separator, path, query, pieces))
    \/ \E name \in ParameterNames : UriGetParameter(name)

SpecUri == Init /\ [][NextUri]_vars

(***************************************************************************)
(* ApplicationConfig.fromConfigObject (application.ts): the definition     *)
(* files of each kind are merged into one list per kind, and the level is  *)
(* built on top of the host's definitions with dependency analysis.        *)
(***************************************************************************)
Overriding(def) == [def EXCEPT !.override = TRUE]

\* The definitions of all files in order, each with the index of its file.
RECURSIVE Flatten(_, _)
Flatten(files, n) ==
    IF n > Len(files) THEN <<>>
    ELSE [i \in 1..Len(files[n]) |-> [def |-> files[n][i], file |-> n]]
             \o Flatten(files, n + 1)

ErrExists(key, file) == [k |-> "err", msg |-> "already exists in file", key |-> key, file |-> file]

\* Variant: a key is checked against the earlier definitions of its own file only.
RECURSIVE MergeDefinitions_PerFile(_, _, _, _)
MergeDefinitions_PerFile(entries, field, toFileName, definitions) ==
    IF entries = <<>> THEN [ok |-> TRUE, defs |-> definitions]
    ELSE LET def == Head(entries).def
             file == Head(entries).file
         IN  IF /\ def[field] \in DOMAIN toFileName
                /\ toFileName[def[field]] = file
                /\ ~def.override
             THEN [ok |-> FALSE, error |-> ErrExists(def[field], toFileName[def[field]])]
             ELSE MergeDefinitions_PerFile(Tail(entries), field,
                                           (def[field] :> file) @@ toFileName,
                                           Append(definitions, def))

\* The loop over the files of one kind: typeToFileName / protocolToFileName /
\* nameToFileName and the merged list.
RECURSIVE MergeDefinitions(_, _, _, _)
MergeDefinitions(entries, field, toFileName, definitions) ==
    IF entries = <<>> THEN [ok |-> TRUE, defs |-> definitions]
    ELSE LET def == Head(entries).def
             file == Head(entries).file
         IN  IF def[field] \in DOMAIN toFileName /\ ~def.override
             THEN [ok |-> FALSE, error |-> ErrExists(def[field], toFileName[def[field]])]
             ELSE MergeDefinitions(Tail(entries), field,
                                   (def[field] :> file) @@ toFileName,
                                   Append(definitions, def))

\* The objectContextDef of the application settings, or the thrown error.
ApplicationConfig_fromConfigObject(cs, host, typeDefFiles, providerDefFiles, namedObjectDefFiles) ==
    CHOOSE out \in
        {IF ~types.ok THEN types
         ELSE IF ~providers.ok THEN providers
         ELSE IF ~objects.ok THEN objects
         ELSE ScopedObjectContextDef(cs, host, types.defs, providers.defs, objects.defs, TRUE) :
            types \in {MergeDefinitions(Flatten(typeDefFiles, 1), "typeName", <<>>, <<>>)},
            providers \in {MergeDefinitions(Flatten(providerDefFiles, 1), "protocol", <<>>, <<>>)},
            objects \in {MergeDefinitions(Flatten(namedObjectDefFiles, 1), "name", <<>>, <<>>)}} :
        TRUE

\* Files of type definitions: a type of the host level again, the same
\* marked override, and a file that defines a new type twice.
TypeDefFiles ==
    {<<TypeDef("TypeA", 2)>>,
     <<Overriding(TypeDef("TypeA", 3))>>,
     <<TypeDef("TypeC", 2), TypeDef("TypeC", 3)>>}

\* Files of provider definitions: the protocol of the host level again, the
\* same marked override, and the protocol written in lower case.
ProviderDefFiles ==
    {<<ProviderDef(<<"P", "a">>, 2)>>,
     <<Overriding(ProviderDef(<<"P", "a">>, 3))>>,
     <<ProviderDef(<<"p", "a">>, 4)>>}

\* Files of named object definitions: an object of the host level again, and
\* the same marked override.
NamedObjectDefFiles ==
    {<<NamedObjectDef("objectA", Prim(2))>>,
     <<Overriding(NamedObjectDef("objectA", Prim(3)))>>}

ApplicationConfigFromConfigObject(typeDefFiles, providerDefFiles, namedObjectDefFiles) ==
    /\ last = Idle
    /\ \E def \in {ApplicationConfig_fromConfigObject(
                       ctxs, 1, typeDefFiles, providerDefFiles, namedObjectDefFiles)} :
          last' = Called("ApplicationConfig.fromConfigObject", 0, "",
                         [k |-> "config", objectTypes |-> typeDefFiles,
                          objectProviders |-> providerDefFiles,
                          namedObjects |-> namedObjectDefFiles],
                         R(IF def.ok THEN [k |-> "settings", objectContextDef |-> def]
                           ELSE def.error, <<>>, regs))
    /\ UNCHANGED <<ctxs, regs, hosts>>

NextConfig ==
    \/ Return
    \/ \E typeDefFiles \in SeqsUpTo(TypeDefFiles, MaxFiles),
          providerDefFiles \in SeqsUpTo(ProviderDefFiles, MaxFiles),
          namedObjectDefFiles \in SeqsUpTo(NamedObjectDefFiles, MaxFiles) :
          ApplicationConfigFromConfigObject(typeDefFiles, providerDefFiles, namedObjectDefFiles)

SpecConfig == Init /\ [][NextConfig]_vars

(***************************************************************************)
(* Hosts: applications are registered on a Leaf and on a Hub (locally and  *)
(* in a zone), and requests are served by them.                            *)
(***************************************************************************)
\* Requests: an application name as written or a template (the two are
\* mutually exclusive) or neither, an entry point of test-app or one it does
\* not have, and definitions the request brings.
RequestOverrides ==
    {<<>>,
     <<NamedObjectDef("foo", EntryPointValue("override", FALSE, <<>>))>>,
     <<NamedObjectDef("foo", EntryPointValue("override", TRUE, <<"executeEntryPoint">>))>>,
     <<NamedObjectDef("executeEntryPoint", InterceptorValue("shortCircuit"))>>,
     <<NamedObjectDef("objectX", Prim(1))>>}

Requests ==
    {request \in
        {Request(application, base, entryPoint, overrideObjects) :
            application \in InstanceNames \cup {Undefined},
            base \in TemplateUris \cup {Undefined},
            entryPoint \in {"foo", "alwaysThrow", "foo2"},
            overrideObjects \in RequestOverrides} :
        request.application = Undefined \/ request.base = Undefined}

\* What serve is called with: a request object, or a request string.
ServeInputs ==
    Requests
        \cup {RequestString(TRUE, Request(<<"a">>, Undefined, "foo", <<>>)),
              RequestString(FALSE, Request(<<"a">>, Undefined, "foo", <<>>))}

NextLeaf ==
    \/ Return
    \/ \E names \in SeqsUpTo(InstanceNames, MaxNames), zone \in Zones \cup {NoZone} :
          LeafRegister(names, zone)
    \/ \E request \in ServeInputs : LeafServe(request)

SpecLeaf == Init /\ [][NextLeaf]_vars

\* Requests that bring no definitions.
PlainInputs == {input \in ServeInputs : input.k = "request" => input.overrideObjects = <<>>}

NextHub ==
    \/ Return
    \/ \E names \in SeqsUpTo(InstanceNames, MaxNames), zone \in Zones \cup {NoZone} :
          HubRegister(names, zone)
    \/ \E request \in PlainInputs : HubServe(request)

SpecHub == Init /\ [][NextHub]_vars

\* The set-up of test/host-test.ts: the application is registered on a Leaf,
\* and on a Hub locally under one name and in a zone under another.
TestRegistrations == {[names |-> <<<<"a">>>>, zone |-> NoZone], [names |-> <<<<"b">>>>, zone |-> "zone1"]}

NextServe ==
    \/ Return
    \/ LeafRegister(<<<<"a">>>>, NoZone)
    \/ \E registration \in TestRegistrations :
          HubRegister(registration.names, registration.zone)
    \/ \E request \in ServeInputs : LeafServe(request)
    \/ \E request \in ServeInputs : HubServe(request)

SpecServe == Init /\ [][NextServe]_vars

\* Requests of application "a" (by name or through the template) that set
\* control flags.
ControlFlags == {[debug |-> debug, perf |-> perf] : debug \in BOOLEAN, perf \in BOOLEAN}
FlaggedRequests ==
    {[request EXCEPT !.controlFlags = flags] :
        request \in {r \in Requests : r.application \in {<<"a">>, Undefined}},
        flags \in ControlFlags}

NextFlags ==
    \/ Return
    \/ LeafRegister(<<<<"a">>>>, NoZone)
    \/ \E request \in FlaggedRequests : LeafServe(request)

SpecFlags == Init /\ [][NextFlags]_vars

\* What a request may bring as overrideTypes, overrideProviders and
\* overrideObjects, and the requests that bring it.
RequestOverrideTypes == {<<>>, <<TypeDef("EntryPoint", 4)>>}
RequestOverrideProviders == {<<>>, <<ProviderDef(<<"p", "a">>, 4)>>}
WithOverrides(request, overrideTypes, overrideProviders, overrideObjects) ==
    [request EXCEPT !.overrideTypes = overrideTypes,
                    !.overrideProviders = overrideProviders,
                    !.overrideObjects = overrideObjects]
OverridingRequests ==
    {WithOverrides(request, overrideTypes, overrideProviders, request.overrideObjects) :
        request \in {r \in Requests : r.application \in {<<"a">>, Undefined}
                                       /\ (r.application = Undefined => r.base # Undefined)},
        overrideTypes \in RequestOverrideTypes,
        overrideProviders \in RequestOverrideProviders}

\* The calls made on a request context.
ContextCalls ==
    {[k |-> "execute"]}
        \cup {[k |-> "getNamedObject", name |-> name] :
                 name \in {"foo", "executeEntryPoint", "objectX"}}
        \cup {[k |-> "create", input |-> input] :
                 input \in {Obj("EntryPoint", Prim("foo")), Str(<<"p", "a", ":", "/", "x">>)}}

NextContext ==
    \/ Return
    \/ /\ last = Idle
       /\ \E allowPerRequestOverride \in BOOLEAN, request \in OverridingRequests,
             call \in ContextCalls :
              RequestContextCall(allowPerRequestOverride, request, call)

SpecContext == Init /\ [][NextContext]_vars

\* Applications whose named objects are public, or one of them private, and
\* the inputs of listNamedObjects: none, or allowPrivate and the scopes asked
\* for.
MaxScopes == 2
Private(def) == [def EXCEPT !.private = TRUE]
ListedApplications ==
    {<<NamedObjectDef("objectA", Prim(1)), NamedObjectDef("objectB", Prim(2))>>,
     <<NamedObjectDef("objectA", Prim(1)), Private(NamedObjectDef("objectB", Prim(2)))>>,
     <<Private(NamedObjectDef("objectA", Prim(1)))>>}
ListInputs ==
    {NoInput}
        \cup {[allowPrivate |-> allowPrivate, scopes |-> scopes] :
                 allowPrivate \in BOOLEAN,
                 scopes \in SeqsUpTo({"request", "application", "./application", "global"},
                                     MaxScopes)}

NextList ==
    \/ Return
    \/ /\ last = Idle
       /\ \E objectDefs \in ListedApplications, input \in ListInputs :
              ListNamedObjects(objectDefs, input)

SpecList == Init /\ [][NextList]_vars

\* Execution stacks of up to MaxStack interceptors: built-in ones and
\* interceptors of the application.
InterceptorFunctions ==
    {"passThrough", "shortCircuit", "executeEntryPoint", "finalizeResponse", "custom"}

NextPipeline ==
    \/ \E executionStack \in SeqsUpTo(InterceptorFunctions, MaxStack) :
          Execute(executionStack)
    \/ InterceptorContinues
    \/ InterceptorReturns

SpecPipeline == Init /\ [][NextPipeline]_vars

\* Templates are loaded and unloaded on a Leaf that serves application "a"
\* or none; a file that does not exist is asked for too.
NextTemplates ==
    \/ Return
    \/ LeafRegister(<<<<"a">>>>, NoZone)
    \/ /\ last = Idle
       /\ \E uri \in TemplateFileNames \cup {<<"t", "4">>} : GetOrLoad(uri)
    \/ /\ last = Idle
       /\ \E uri \in TemplateFileNames : Unload(uri)
    \/ /\ last = Idle
       /\ \E uri \in TemplateFileNames \cup {<<"t", "4">>} : GetApplicationName(uri)

SpecTemplates == Init /\ [][NextTemplates]_vars

\* Applications are registered on a Hub one name at a time, so that each
\* name is an application of its own (Leaf.register constructs one
\* Application per call); "b" is registered on the local host or in a zone.
RoutingRegistrations ==
    {[names |-> <<<<"a">>>>, zone |-> NoZone], [names |-> <<<<"b">>>>, zone |-> NoZone],
     [names |-> <<<<"b">>>>, zone |-> "zone1"]}

\* Requests with an application name, a base template (of application "a"),
\* both or neither, with and without the entry point.
RoutedRequests ==
    {Request(application, base, entryPoint, <<>>) :
        application \in {<<"a">>, <<"b">>, <<"B">>, Undefined},
        base \in TemplateUris \cup {Undefined},
        entryPoint \in {"foo", "alwaysThrow", NoEntryPoint}}

NextRouting ==
    \/ Return
    \/ \E registration \in RoutingRegistrations :
          HubRegister(registration.names, registration.zone)
    \/ /\ last = Idle
       /\ \E request \in RoutedRequests : HubServe(request)

SpecRouting == Init /\ [][NextRouting]_vars

(***************************************************************************)
(* What the definitions of the levels say, read off the definition lists   *)
(* alone: the nearest level that declares a key, the function it names,    *)
(* and the value an expression denotes in the effective view of a level.   *)
(***************************************************************************)
DeclaresType(cs, l, t) ==
    \E i \in 1..Len(cs[l].def.typeDefs) : cs[l].def.typeDefs[i].typeName = t

DeclaresProtocol(cs, l, p) ==
    \E i \in 1..Len(cs[l].def.providerDefs) :
        toLowerCase(cs[l].def.providerDefs[i].protocol) = toLowerCase(p)

RECURSIVE NearestType(_, _, _)
NearestType(cs, c, t) ==
    IF c = 0 THEN 0
    ELSE IF DeclaresType(cs, c, t) THEN c
    ELSE NearestType(cs, cs[c].parent, t)

RECURSIVE NearestProtocol(_, _, _)
NearestProtocol(cs, c, p) ==
    IF c = 0 THEN 0
    ELSE IF DeclaresProtocol(cs, c, p) THEN c
    ELSE NearestProtocol(cs, cs[c].parent, p)

DeclaredTypeFn(cs, l, t) ==
    LET defs == cs[l].def.typeDefs
        idx == {i \in 1..Len(defs) : defs[i].typeName = t}
    IN  defs[CHOOSE i \in idx : \A j \in idx : j <= i].functionName

DeclaredProviderFn(cs, l, p) ==
    LET defs == cs[l].def.providerDefs
        idx == {i \in 1..Len(defs) : toLowerCase(defs[i].protocol) = toLowerCase(p)}
    IN  defs[CHOOSE i \in idx : \A j \in idx : j <= i].functionName

RECURSIVE Effective(_, _, _, _)
Effective(cs, c, v, seen) ==
    CASE v.k = "obj" ->
            LET l == NearestType(cs, c, v.type)
            IN  IF l = 0 THEN ErrType("Not supported type", v.type)
                ELSE CHOOSE out \in
                         {IF IsFail(inner) THEN inner
                          ELSE [k |-> "made", by |-> DeclaredTypeFn(cs, l, v.type),
                                inner |-> inner] :
                             inner \in {Effective(cs, c, v.value, seen)}} : TRUE
      [] v.k = "str" ->
            IF ~Uri_isUri(v.s) THEN v
            ELSE LET uri == Uri_tryParse(v.s)
                     l == NearestProtocol(cs, c, uri.protocol)
                 IN  IF l = 0 THEN ErrProtocol("Unsupported protocol", uri.protocol)
                     ELSE [k |-> "prov", provider |-> DeclaredProviderFn(cs, l, uri.protocol),
                           path |-> uri.path]
      [] v.k = "ref" ->
            LET o == OwnerOf(cs, c, v.name)
            IN  IF o = 0 THEN ErrName("Named object not found", v.name)
                ELSE IF v.name \in seen THEN Loop
                ELSE Effective(cs, c, getNamedObjectDef(cs, o, v.name).value,
                               seen \cup {v.name})
      [] v.k = "arr" /\ v.elems # <<>> /\ v.elems[1].k = "obj" ->
            LET typeName == TypeOf(v.elems[1])
                l == NearestType(cs, c, typeName)
            IN  IF l = 0 THEN ErrType("Not supported type", typeName)
                ELSE IF \E i \in 1..Len(v.elems) : TypeOf(v.elems[i]) # typeName
                THEN ErrType("Property '_type' must be the same for all elements", typeName)
                ELSE Arr([i \in 1..Len(v.elems) |->
                             [k |-> "made", by |-> DeclaredTypeFn(cs, l, typeName),
                              inner |-> v.elems[i].value]])
      [] OTHER -> v

\* Does a level strictly below the owner o, down to c, declare one of the
\* recorded dependencies ?
Overridden(cs, c, o, d) ==
    \E l \in LevelsBelow(cs, c, o) :
        \/ \E t \in d.types : DeclaresType(cs, l, t)
        \/ \E p \in d.protocols : DeclaresProtocol(cs, l, p)
        \/ \E n \in d.objects : n \in DeclaredNames(cs, l)

\* The names a value references.
RECURSIVE RefsOf(_)
RefsOf(v) ==
    CASE v.k = "ref" -> {v.name}
      [] v.k = "obj" -> RefsOf(v.value)
      [] v.k = "arr" -> UNION {RefsOf(v.elems[i]) : i \in 1..Len(v.elems)}
      [] OTHER -> {}

\* The names reachable from the names of from in one or more reference steps
\* among the definitions of one list.
RECURSIVE ReachedFrom(_, _, _)
ReachedFrom(defs, from, seen) ==
    LET next == UNION {RefsOf(LastDef(defs, n).value) : n \in from}
                    \cap {defs[i].name : i \in 1..Len(defs)}
    IN  IF next \subseteq seen THEN seen
        ELSE ReachedFrom(defs, next \ seen, seen \cup next)

\* The named objects of one level reference each other in a cycle.
ReferenceCycle(defs) ==
    \E i \in 1..Len(defs) : defs[i].name \in ReachedFrom(defs, {defs[i].name}, {})

\* What context p answers to every get and create of the catalogue.
Observe(cs, rg, p) ==
    [gets |-> [n \in ObjectNames |-> get(cs, rg, p, n, {}).val],
     creates |-> [i \in CreateInputs |-> create(cs, rg, p, i, {}).val]]

(***************************************************************************)
(* Properties.                                                             *)
(***************************************************************************)

\* C1: get(N) on a context C, where N comes from a strict ancestor A and one
\* of the dependencies recorded for A's definition of N is declared at C or at
\* a level strictly between A and C, returns a NamedObject carrying A's
\* definition, whose scope is C's scope name and whose value is A's value
\* expression evaluated in C's effective view.
C1_DependencyGatedReResolution ==
    last.op = "get" =>
        LET c == last.ctx
            a == OwnerOf(ctxs, c, last.name)
        IN  (a # 0 /\ a # c
               /\ Overridden(ctxs, c, a, getNamedObjectDef(ctxs, a, last.name).dependencies))
            => LET def == getNamedObjectDef(ctxs, a, last.name)
               IN  last.val = NamedObject(def, Effective(ctxs, c, def.value, {}),
                                          ctxs[c].scope)

\* The overriding level lies strictly between the owner and the context asked.
C1_Witness ==
    /\ last.op = "get"
    /\ last.name = "objectB"
    /\ ctxs[last.ctx].parent # 0
    /\ ctxs[last.ctx].def.typeDefs = <<>>
    /\ DeclaresType(ctxs, ctxs[last.ctx].parent, "TypeA")
    /\ ctxs[ctxs[last.ctx].parent].parent = 1
    /\ last.val.k = "nobj"
    /\ last.val.scope = ctxs[last.ctx].scope
    /\ last.val.value.inner.by = TypeFn(ctxs[last.ctx].parent, "TypeA")

\* C2: get(N) on a context C, where N comes from a strict ancestor A and none
\* of the recorded dependencies is declared at C or between A and C, returns
\* the very object A.get(N) returns, scope A's scope name, and invokes no
\* constructor or provider.
C2_NoUnnecessaryRecomputation ==
    last.op = "get" =>
        LET c == last.ctx
            a == OwnerOf(ctxs, c, last.name)
        IN  (a # 0 /\ a # c
               /\ ~Overridden(ctxs, c, a, getNamedObjectDef(ctxs, a, last.name).dependencies))
            => /\ last.val = NamedObjectRegistry_get(regs[a], last.name)
               /\ last.val.scope = ctxs[a].scope
               /\ last.calls = <<>>

\* A level between overrides a type the object does not depend on.
C2_Witness ==
    /\ last.op = "get"
    /\ last.name = "objectA"
    /\ last.ctx # 1
    /\ OwnerOf(ctxs, last.ctx, "objectA") = 1
    /\ \E l \in LevelsBelow(ctxs, last.ctx, 1) : DeclaresType(ctxs, l, "TypeB")
    /\ last.val.scope = "./application"
    /\ last.calls = <<>>

\* C3: create on a context C uses, for a type tag or URI scheme, the function
\* declared by the nearest level on the path from C to the root that declares
\* the key.
C3_NearestLevelShadowing ==
    last.op = "create" =>
        LET c == last.ctx
            input == last.input
        IN  /\ input.k = "obj" =>
                 LET l == NearestType(ctxs, c, input.type)
                 IN  l # 0 => /\ last.val.k = "made"
                              /\ last.val.by = DeclaredTypeFn(ctxs, l, input.type)
                              /\ Head(last.calls) = DeclaredTypeFn(ctxs, l, input.type)
            /\ (input.k = "str" /\ Uri_isUri(input.s)) =>
                 LET p == Uri_tryParse(input.s).protocol
                     l == NearestProtocol(ctxs, c, p)
                 IN  l # 0 => /\ last.val.k = "prov"
                              /\ last.val.provider = DeclaredProviderFn(ctxs, l, p)
                              /\ last.calls = <<DeclaredProviderFn(ctxs, l, p)>>

\* The nearest declaring level is neither the context asked nor the root.
C3_Witness ==
    /\ last.op = "create"
    /\ last.input = Obj("TypeA", Prim(1))
    /\ NearestType(ctxs, last.ctx, "TypeA") \notin {0, 1, last.ctx}
    /\ last.val.k = "made"
    /\ last.val.by.lvl = ctxs[last.ctx].parent

\* C4: a step that changes anything (a context is added, or a get or create
\* on a context stores what it rebuilt) changes no answer of any other
\* context: every get and create on each of them returns what it returned
\* before.
C4_NoBackPropagation ==
    [][(regs' # regs \/ ctxs' # ctxs) =>
          \A p \in 1..Len(ctxs) :
              p # last'.ctx => Observe(ctxs', regs', p) = Observe(ctxs, regs, p)]_vars

\* A request has just stored an object it rebuilt, next to another request
\* that holds a rebuilt object of its own.
C4_Witness ==
    /\ last.op = "get"
    /\ last.ctx # 0
    /\ ~ctxs[last.ctx].def.analyse
    /\ last.name \notin DeclaredNames(ctxs, last.ctx)
    /\ last.name \in DOMAIN regs[last.ctx]
    /\ last.calls # <<>>
    /\ \E s \in 1..Len(ctxs) :
          /\ s # last.ctx
          /\ ~ctxs[s].def.analyse
          /\ ctxs[s].parent = ctxs[last.ctx].parent
          /\ \E n \in DOMAIN regs[s] : n \notin DeclaredNames(ctxs, s)

\* C5: get(N) on a context C that declares N itself returns a NamedObject
\* carrying C's own definition, scope C's scope name, value C's own value
\* expression evaluated in C's effective view.
C5_LocalDefinitionsResolveLocally ==
    (last.op = "get" /\ last.name \in DeclaredNames(ctxs, last.ctx)) =>
        LET c == last.ctx
            def == getNamedObjectDef(ctxs, c, last.name)
        IN  last.val = NamedObject(def, Effective(ctxs, c, def.value, {}), ctxs[c].scope)

\* The context redeclares an ancestor's name and overrides its type as well.
C5_Witness ==
    /\ last.op = "get"
    /\ last.name = "objectA"
    /\ last.ctx # 1
    /\ "objectA" \in DeclaredNames(ctxs, last.ctx)
    /\ DeclaresType(ctxs, last.ctx, "TypeA")
    /\ last.val.k = "nobj"
    /\ last.val.value.by = TypeFn(last.ctx, "TypeA")

\* C6: forEach on a context C reports every name declared at C or at any
\* ancestor exactly once, as the object C.get(name) returns; a name declared
\* again at a closer level is reported with the closer level's definition.
C6_ForEachShadowUniqueness ==
    last.op = "forEach" =>
        LET c == last.ctx
            items == last.val.items
        IN  /\ \A i, j \in 1..Len(items) : items[i].def.name = items[j].def.name => i = j
            /\ {items[i].def.name : i \in 1..Len(items)}
                 = {n \in ObjectNames : OwnerOf(ctxs, c, n) # 0}
            /\ \A i \in 1..Len(items) :
                 /\ items[i] = get(ctxs, regs, c, items[i].def.name, {}).val
                 /\ items[i].def = getNamedObjectDef(ctxs, OwnerOf(ctxs, c, items[i].def.name),
                                                     items[i].def.name)

\* The context redeclares a name of an ancestor.
C6_Witness ==
    /\ last.op = "forEach"
    /\ last.ctx # 1
    /\ "objectA" \in DeclaredNames(ctxs, last.ctx)
    /\ Len(last.val.items) >= 3

\* C7: a constructor invoked through a context C resolves its nested create
\* against C's effective view, whichever level declared the constructor.
C7_OriginatingContext ==
    (last.op = "create" /\ last.input.k = "obj" /\ last.input.value.k = "obj") =>
        LET c == last.ctx
            outer == NearestType(ctxs, c, last.input.type)
            inner == NearestType(ctxs, c, last.input.value.type)
        IN  (outer # 0 /\ inner # 0) =>
                /\ last.val.k = "made"
                /\ last.val.inner.k = "made"
                /\ last.val.inner.by = DeclaredTypeFn(ctxs, inner, last.input.value.type)

\* TypeB is declared by the root only, TypeA is overridden below it.
C7_Witness ==
    /\ last.op = "create"
    /\ last.input = Obj("TypeB", Obj("TypeA", Prim(1)))
    /\ NearestType(ctxs, last.ctx, "TypeB") = 1
    /\ NearestType(ctxs, last.ctx, "TypeA") # 1
    /\ last.val.by = TypeFn(1, "TypeB")
    /\ last.val.inner.by.lvl # 1

SameSchemeIgnoringCase(protocols) ==
    \A i \in 1..Len(protocols) : toLowerCase(protocols[i]) = toLowerCase(protocols[1])

ArrayProvided ==
    /\ last.op = "ProviderRegistry.provide"
    /\ last.input.k = "uris"
    /\ last.input.isArray
    /\ Len(last.input.protocols) > 0

C11_UniformSchemeIgnoringCase ==
    ArrayProvided =>
        LET protocols == last.input.protocols
            reg == ctxs[1].providerRegistry
            mixed == /\ last.val.k = "err"
                     /\ last.val.msg = "Protocol must the the same with an array of Uris"
        IN  /\ mixed <=> ~SameSchemeIgnoringCase(protocols)
            /\ (SameSchemeIgnoringCase(protocols) /\ ProviderRegistry_supports(reg, protocols[1]))
                    => /\ last.val.k = "provs"
                       /\ Len(last.val.paths) = Len(protocols)
                       /\ last.calls = <<reg[toLowerCase(protocols[1])]>>

\* An array whose schemes differ in case only, under a registered scheme.
C11_Witness ==
    /\ ArrayProvided
    /\ Len(last.input.protocols) = 2
    /\ last.input.protocols[1] # last.input.protocols[2]
    /\ SameSchemeIgnoringCase(last.input.protocols)
    /\ ProviderRegistry_supports(ctxs[1].providerRegistry, last.input.protocols[1])

(***************************************************************************)
(* C12.  Provider schemes are case-insensitive: after register(p, f),      *)
(* supports(q) holds for every q equal to p ignoring case and provide of   *)
(* a Uri with scheme q invokes f, whichever loader a case variant of p had *)
(* before; a single-Uri provide invokes the loader registered under the    *)
(* scheme ignoring case.                                                   *)
(***************************************************************************)
C12_SchemesIgnoreCase ==
    /\ last.op = "ProviderRegistry.register" =>
          \A q \in Protocols :
              toLowerCase(q) = toLowerCase(last.input.protocol) =>
                  /\ ProviderRegistry_supports(ctxs[1].providerRegistry, q)
                  /\ ProviderRegistry_provide(ctxs[1].providerRegistry,
                                              <<Uri_tryParse(UriOf(q))>>, FALSE, regs).calls
                         = <<last.input.loader>>
    /\ (/\ last.op = "ProviderRegistry.provide"
        /\ last.input.k = "uris"
        /\ ~last.input.isArray) =>
          LET reg == ctxs[1].providerRegistry
              key == toLowerCase(last.input.protocols[1])
          IN  IF key \in DOMAIN reg
              THEN last.val.k = "prov" /\ last.calls = <<reg[key]>>
              ELSE last.val.k = "err" /\ last.calls = <<>>
    /\ last.op = "ProviderRegistry.supports" =>
          (last.val.b <=> toLowerCase(last.input.s) \in DOMAIN ctxs[1].providerRegistry)

\* A loader registered under one case variant replaces the loader another
\* variant registered.
C12_Witness ==
    /\ last.op = "ProviderRegistry.register"
    /\ last.input.protocol = <<"P", "A">>
    /\ last.val # Null
    /\ last.val # last.input.loader

(***************************************************************************)
(* C13.  Uri.tryParse succeeds exactly on the strings that have a          *)
(* non-empty scheme before the first ":/" and whose query, if any, is made *)
(* of '&'-separated pairs with exactly one '='.  On success the scheme is  *)
(* the text before the first ":/", the path the text up to the first       *)
(* following "?" (or the end), and getParameter(k), k looked up ignoring   *)
(* case, returns as a string the value of the last pair whose key equals k *)
(* ignoring case (undefined when there is none).  Uri.parse throws exactly *)
(* when tryParse fails.                                                    *)
(***************************************************************************)
WellFormed(in) ==
    /\ in.protocol # <<>>
    /\ in.separator = <<":", "/">>
    /\ \A i \in 1..Len(in.pieces) : in.pieces[i].pair

\* The pairs of the query whose key equals name ignoring case.
PairsNamed(in, name) ==
    {i \in 1..Len(in.pieces) : toLowerCase(in.pieces[i].key) = toLowerCase(name)}

C13_UriGrammar ==
    /\ last.op = "Uri.parse" =>
          LET in == last.input
              result == last.val.tryParse
          IN  /\ result.success <=> WellFormed(in)
              /\ result.success => /\ result.protocol = in.protocol
                                   /\ result.path = in.path
              /\ last.val.parse.k = "err" <=> ~result.success
              /\ result.success => last.val.parse = [k |-> "uri", uri |-> result]
    /\ last.op = "Uri.getParameter" =>
          LET in == last.input.of
              named == PairsNamed(in, last.input.name)
          IN  IF named = {} THEN last.val.s = <<"undefined">>
              ELSE \E i \in named : /\ \A j \in named : j <= i
                                    /\ last.val.s = in.pieces[i].value

\* getParameter(k) returns v for every pair k=v of the query.
C13_EveryPairIsReturned ==
    last.op = "Uri.getParameter" =>
        \A i \in PairsNamed(last.input.of, last.input.name) :
            last.val.s = last.input.of.pieces[i].value

\* A parameter written in upper case is read under its lower-case name, from
\* a URI whose path holds a second ":/".
C13_Witness ==
    /\ last.op = "Uri.getParameter"
    /\ last.input.name = <<"k">>
    /\ last.input.of.path = <<"x", ":", "/", "y">>
    /\ Len(last.input.of.pieces) = 2
    /\ last.input.of.pieces[1].key = <<"b">>
    /\ last.input.of.pieces[2].key = <<"K">>
    /\ last.val.s = <<"2">>

(***************************************************************************)
(* C14.  Building one level's definitions from its files raises the        *)
(* duplicate-definition error exactly when some key (type name, provider   *)
(* protocol or object name, as written) occurs twice in the merged list of *)
(* its kind and the later occurrence is not marked override; a key that    *)
(* only repeats a key of the parent level never raises it, marked override *)
(* or not, and the merged lists keep every definition in file order.       *)
(***************************************************************************)
\* All definitions of the files of one kind, in order.
RECURSIVE Concat(_)
Concat(files) == IF files = <<>> THEN <<>> ELSE Head(files) \o Concat(Tail(files))

UnannouncedDuplicate(defs, field) ==
    \E i, j \in 1..Len(defs) :
        i < j /\ defs[i][field] = defs[j][field] /\ ~defs[j].override

RECURSIVE SubValues(_)
SubValues(v) ==
    {v} \cup CASE v.k = "obj" -> SubValues(v.value)
               [] v.k = "arr" -> UNION {SubValues(v.elems[i]) : i \in 1..Len(v.elems)}
               [] OTHER -> {}

TagsIn(v) == {x.type : x \in {y \in SubValues(v) : y.k = "obj"}}
SchemesIn(v) ==
    {substring(x.s, 0, indexOf(x.s, <<":", "/">>, 0)) :
        x \in {y \in SubValues(v) : y.k = "str" /\ Uri_isUri(y.s)}}
NamesIn(v) == {x.name : x \in {y \in SubValues(v) : y.k = "ref"}}

\* The dependencies attached to the definition a name has seen from level c.
DependenciesOf(cs, c, name) ==
    LET o == OwnerOf(cs, c, name)
    IN  IF o = 0 THEN NoDependencies ELSE getNamedObjectDef(cs, o, name).dependencies

C15_DependencySets ==
    \A c \in 1..Len(ctxs) :
        ctxs[c].def.analyse =>
            \A i \in 1..Len(ctxs[c].def.namedObjectDefs) :
                LET def == ctxs[c].def.namedObjectDefs[i]
                    referenced == {DependenciesOf(ctxs, c, n) : n \in NamesIn(def.value)}
                IN  /\ def.dependencies.types =
                          TagsIn(def.value) \cup UNION {d.types : d \in referenced}
                    /\ def.dependencies.protocols =
                          SchemesIn(def.value) \cup UNION {d.protocols : d \in referenced}
                    /\ def.dependencies.objects =
                          NamesIn(def.value) \cup UNION {d.objects : d \in referenced}

\* objectD, an array that references objectE of its own level (typed objects
\* nested in an array) and objectC of the application (a URI).
C15_Witness ==
    \E c \in 2..Len(ctxs) :
        /\ ctxs[c].def.analyse
        /\ "objectD" \in DeclaredNames(ctxs, c)
        /\ getNamedObjectDef(ctxs, c, "objectD").dependencies =
               [types |-> {"TypeA", "TypeB"}, protocols |-> {<<"P", "a">>},
                objects |-> {"objectE", "objectC"}]

(***************************************************************************)
(* C16.  Leaf.register is all-or-nothing: a call that names an instance    *)
(* already registered on the Leaf (names compared ignoring case), or that  *)
(* gives a zone, fails and changes neither the application map nor         *)
(* applicationInstanceNames, so that no name of the call that was free     *)
(* before is served afterwards.                                            *)
(***************************************************************************)
\* The names of the last register call that were bound in a name map before it.
BoundBefore(map) ==
    {i \in 1..Len(last.input.names) : toLowerCase(last.input.names[i]) \in DOMAIN map}

C16_RegisterAllOrNothing ==
    (/\ last.op = "Leaf.register"
     /\ (last.input.zone # NoZone \/ BoundBefore(last.input.before.applications) # {}))
        => /\ IsFail(last.val)
           /\ hosts.leaf.applications = last.input.before.applications
           /\ hosts.leaf.applicationInstanceNames =
                  last.input.before.applicationInstanceNames
           /\ \A i \in 1..Len(last.input.names) :
                  i \notin BoundBefore(last.input.before.applications)
                      => ~Leaf_serve(hosts.leaf,
                                     Request(last.input.names[i], Undefined, "foo", <<>>)).ok

\* A local registration of a registered name together with a free one.
C16_Witness ==
    /\ last.op = "Leaf.register"
    /\ last.input.zone = NoZone
    /\ BoundBefore(last.input.before.applications) # {}
    /\ BoundBefore(last.input.before.applications) # 1..Len(last.input.names)
    /\ IsFail(last.val)

(***************************************************************************)
(* C17.  Hub routing by instance name: every instance name (compared       *)
(* ignoring case) is listed exactly once in applicationInstanceNames and   *)
(* bound to one host, the names listed are the names bound, a register     *)
(* call never changes the binding an earlier registration made, and        *)
(* Hub.serve hands every request to the host its application name is       *)
(* bound to.                                                               *)
(***************************************************************************)
\* The application name Hub.serve routes a request by.
RoutedName(request) ==
    IF request.application # Undefined THEN request.application
    ELSE TemplateFile(request.base).application

C17_HubRoutingByName ==
    LET listed == hosts.hub.applicationInstanceNames
    IN  /\ \A i, j \in 1..Len(listed) :
               i # j => toLowerCase(listed[i]) # toLowerCase(listed[j])
        /\ DOMAIN hosts.hub.hostMap = LowerCaseNames(listed)
        /\ last.op = "Hub.register"
               => \A key \in DOMAIN last.input.before.hostMap :
                      hosts.hub.hostMap[key] = last.input.before.hostMap[key]
        /\ (last.op = "Hub.serve" /\ ~IsFail(JSON_parse(last.input.request)))
               => LET request == JSON_parse(last.input.request)
                  IN  (request.application # Undefined \/ request.base # Undefined)
                          => LET key == toLowerCase(RoutedName(request))
                             IN  last.calls = IF key \in DOMAIN hosts.hub.hostMap
                                              THEN <<hosts.hub.hostMap[key]>> ELSE <<>>

\* A name registered locally is registered again in a zone, and the call
\* succeeds.
C17_Witness ==
    /\ last.op = "Hub.register"
    /\ ~IsFail(last.val)
    /\ last.input.zone # NoZone
    /\ \E i \in BoundBefore(last.input.before.hostMap) :
           last.input.before.hostMap[toLowerCase(last.input.names[i])] = NoZone

(***************************************************************************)
(* C18.  Leaf.serve and Hub.serve reject, and do not answer a Response,    *)
(* when the request is a malformed JSON string, has neither application    *)
(* nor base, names an application that is not registered, names an entry   *)
(* point that does not exist, or its entry point throws; the rejection     *)
(* carries the message of the error it stems from.                         *)
(***************************************************************************)
\* The last serve call fails with one of the messages.
RejectedWith(messages) == IsFail(last.val) /\ last.val.msg \in messages

\* The request's execution stack, as the application defines it, calls the
\* entry point.
CallsEntryPoint(request) ==
    \A i \in 1..Len(request.overrideObjects) :
        request.overrideObjects[i].name # "executeEntryPoint"

OwnEntryPoint(request) ==
    {i \in 1..Len(request.overrideObjects) :
        /\ request.overrideObjects[i].name = request.entryPoint
        /\ TypeOf(request.overrideObjects[i].value) = "EntryPoint"}

\* The last call served a request of a registered application on the Leaf.
LeafServed ==
    /\ last.op = "Leaf.serve"
    /\ last.input.request.k = "request"
    /\ (last.input.request.application # Undefined \/ last.input.request.base # Undefined)
    /\ toLowerCase(RoutedName(last.input.request)) \in DOMAIN hosts.leaf.applications

C19_OverriddenEntryPointServed ==
    (LeafServed /\ OwnEntryPoint(last.input.request) # {} /\ HostSettings.allowPerRequestOverride)
        => LET request == last.input.request
               def == request.overrideObjects[CHOOSE i \in OwnEntryPoint(request) : TRUE]
               names == IF def.value.hasStack THEN def.value.executionStack
                        ELSE HostSettings.defaultExecutionStack
           IN  /\ ~IsFail(last.val)
               /\ last.val.responseCode = "Success"
               /\ \E app \in {Application} :
                      last.val.ran = Application_stackOf(app.cs, app.rg, names)
               /\ last.val.output =
                      [k |-> "returned", by |-> def.value.value.v, input |-> request.input]

\* Such a request was sent to the application by name.
C19_Witness ==
    /\ LeafServed
    /\ OwnEntryPoint(last.input.request) # {}
    /\ last.input.request.base = Undefined

(***************************************************************************)
(* C20.  An interceptor can be overridden at every level: when the request *)
(* template a request is served through, or the request itself, redefines  *)
(* an interceptor named in the execution stack of the entry point, the     *)
(* redefined interceptor runs in that position of the stack, whether or    *)
(* not the request brings definitions of its own.                          *)
(***************************************************************************)
\* The interceptor a list of definitions gives a name, or none.
Redefined(defs, name) ==
    {defs[i].value.value.v :
        i \in {j \in 1..Len(defs) :
                  defs[j].name = name /\ TypeOf(defs[j].value) = "Interceptor"}}

\* The function that is to run for a name of the stack: the request's, else
\* the template's, else the one the stack had.
Expected(request, name, function) ==
    IF Redefined(request.overrideObjects, name) # {}
    THEN CHOOSE f \in Redefined(request.overrideObjects, name) : TRUE
    ELSE IF request.base # Undefined
            /\ Redefined(TemplateFile(request.base).overrideObjects, name) # {}
    THEN CHOOSE f \in Redefined(TemplateFile(request.base).overrideObjects, name) : TRUE
    ELSE function

\* The interceptors that are to run: the stack up to the first one that does
\* not continue.
RECURSIVE Entered(_)
Entered(functions) ==
    IF functions = <<>> THEN <<>>
    ELSE IF Head(functions) = "shortCircuit" THEN <<"shortCircuit">>
    ELSE <<Head(functions)>> \o Entered(Tail(functions))

C20_InterceptorOverriddenAtEveryLevel ==
    (/\ LeafServed
     /\ OwnEntryPoint(last.input.request) = {}
     /\ last.input.request.entryPoint = "foo")
        => LET request == last.input.request
               names == HostSettings.defaultExecutionStack
           IN  /\ ~IsFail(last.val)
               /\ [i \in 1..Len(last.val.ran) |-> last.val.ran[i].inner.v] =
                      Entered([i \in 1..Len(names) |-> Expected(request, names[i], names[i])])

\* A request without definitions of its own is served through the template
\* that redefines executeEntryPoint.
C20_Witness ==
    /\ LeafServed
    /\ last.input.request.base # Undefined
    /\ last.input.request.entryPoint = "foo"
    /\ last.input.request.overrideObjects = <<>>
    /\ ~IsFail(last.val)

(***************************************************************************)
(* C21.  For every request served through the finalizeResponse             *)
(* interceptor, the response contains debugInfo exactly when               *)
(* controlFlags.debug is true and perfInfo exactly when controlFlags.perf  *)
(* is true; a request with debug set whose execution succeeds without a    *)
(* recorded error resolves with a response that carries debugInfo.         *)
(***************************************************************************)
\* The request with its control flags left out.
Unflagged(request) == [request EXCEPT !.controlFlags = [debug |-> FALSE, perf |-> FALSE]]

\* The last call served a request whose interceptors and entry point run
\* without an error and whose stack begins with finalizeResponse: without
\* control flags it is answered with a response finalizeResponse returned.
ServedThroughFinalizeResponse ==
    /\ last.op = "Leaf.serve"
    /\ last.input.request.k = "request"
    /\ \E served \in {Leaf_serve(last.input.before, Unflagged(last.input.request))} :
           /\ served.ok
           /\ served.val.ran # <<>>
           /\ served.val.ran[1].inner.v = "finalizeResponse"

C21_DebugAndPerfInfo ==
    ServedThroughFinalizeResponse
        => /\ ~IsFail(last.val)
           /\ ("debugInfo" \in DOMAIN last.val) = last.input.request.controlFlags.debug
           /\ ("perfInfo" \in DOMAIN last.val) = last.input.request.controlFlags.perf

\* A request with debug set, served through finalizeResponse.
C21_Witness ==
    /\ ServedThroughFinalizeResponse
    /\ last.input.request.controlFlags.debug
    /\ last.input.request.entryPoint = "foo"

\* Without debug the flags decide what the response carries.
C21_PerfInfoOnly ==
    (ServedThroughFinalizeResponse /\ ~last.input.request.controlFlags.debug)
        => /\ ~IsFail(last.val)
           /\ "debugInfo" \notin DOMAIN last.val
           /\ ("perfInfo" \in DOMAIN last.val) = last.input.request.controlFlags.perf

(***************************************************************************)
(* C22.  When the application's allowPerRequestOverride setting is false,  *)
(* a request's overrideTypes, overrideProviders and overrideObjects have   *)
(* no influence: two requests that differ only in those fields get the     *)
(* same results, create(x) and get(name) on the request context return     *)
(* what the base template's context returns, no named object returned has  *)
(* scope "request", and the execution stack the application cached for the *)
(* entry point is the one executed.                                        *)
(***************************************************************************)
\* The last call was made on a request context of an application that does
\* not allow per-request override.
CalledWithoutOverride ==
    /\ last.op = "RequestContext"
    /\ ~last.input.allowPerRequestOverride

C22_NoOverrideWithoutPermission ==
    CalledWithoutOverride
        => \E app \in {[Application EXCEPT !.settings.allowPerRequestOverride = FALSE]} :
           \E base \in {BaseTemplate(app, last.input.request)} :
           LET request == last.input.request
               call == last.input.call
           IN  /\ \A overrideTypes \in RequestOverrideTypes,
                     overrideProviders \in RequestOverrideProviders,
                     overrideObjects \in RequestOverrides :
                      RequestContext_call(app, base,
                                          WithOverrides(request, overrideTypes,
                                                        overrideProviders, overrideObjects),
                                          call) = last.val
               /\ (last.calls # <<>> /\ call.k = "getNamedObject")
                      => /\ last.val = get(base.cs, base.rg, base.objectContext,
                                           call.name, {}).val
                         /\ last.val.k = "nobj" => last.val.scope # "request"
               /\ (last.calls # <<>> /\ call.k = "create")
                      => last.val = create(base.cs, base.rg, base.objectContext,
                                           call.input, {}).val
               /\ (call.k = "execute" /\ ~IsFail(last.val))
                      => last.val.ran =
                             Application_getExecutionStack(app, request.entryPoint).stack

\* A request that overrides a type, a provider and an interceptor of its
\* stack is executed, or asked for an object, by such an application.
C22_Witness ==
    /\ CalledWithoutOverride
    /\ last.input.request.overrideTypes # <<>>
    /\ last.input.request.overrideProviders # <<>>
    /\ \E i \in 1..Len(last.input.request.overrideObjects) :
           last.input.request.overrideObjects[i].name = "executeEntryPoint"
    /\ last.input.call.k \in {"execute", "getNamedObject"}
    /\ ~IsFail(last.val)
    /\ last.val.k # "null"

(***************************************************************************)
(* C23.  The built-in entry point listNamedObjects returns the name of     *)
(* every named object of the request's application that is public (or      *)
(* private when allowPrivate is set) and whose scope is one of the         *)
(* requested scopes (by default "request" and "application"), each name    *)
(* once.                                                                   *)
(***************************************************************************)
\* The names that are to be listed for the last call.
ToBeListed ==
    LET input == IF last.input.input = NoInput THEN DefaultListInput ELSE last.input.input
        app == ApplicationContextOf(last.input.objectDefs)
        objects == forEach(app.cs, app.r.rg, 2).val
    IN  {objects[i].def.name :
            i \in {j \in 1..Len(objects) :
                      /\ (input.allowPrivate \/ ~objects[j].def.private)
                      /\ \E s \in 1..Len(input.scopes) :
                             input.scopes[s] = objects[j].scope}}

C23_ListNamedObjects ==
    last.op = "listNamedObjects"
        => /\ {last.val.items[i] : i \in 1..Len(last.val.items)} = ToBeListed
           /\ \A i, j \in 1..Len(last.val.items) :
                  last.val.items[i] = last.val.items[j] => i = j

\* The scope of the application's objects is asked for and one of them is
\* public.
C23_Witness ==
    /\ last.op = "listNamedObjects"
    /\ last.input.input # NoInput
    /\ last.input.input.scopes = <<"./application">>
    /\ "objectA" \in ToBeListed

(***************************************************************************)
(* C24.  Interceptor pipeline order: for a request context with execution  *)
(* stack [i1..in], the k-th call of continueExecution (k <= n) invokes ik  *)
(* and nothing else, every call after the n-th resolves with Success       *)
(* without invoking an interceptor, the execution depth never decreases    *)
(* and never exceeds n, each interceptor of the stack is invoked at most   *)
(* once per request, and when an interceptor returns without having called *)
(* continueExecution no interceptor below it has been invoked, and so none *)
(* of them has run the entry point.                                        *)
(***************************************************************************)
\* What holds of the calls, the depth and the invocations.
CallOrder(context) ==
    LET n == Len(context.executionStack)
    IN  /\ \A k \in 1..Len(context.log) :
               context.log[k] = IF k <= n THEN k ELSE 0
        /\ context.executionDepth <= n
        /\ \A p \in 1..n :
               Cardinality({k \in 1..Len(context.log) : context.log[k] = p}) <= 1

\* Below an interceptor that returned without calling continueExecution
\* nothing was invoked and nothing ran the entry point.
NothingBelowShortCircuit(context) ==
    \A r \in 1..Len(context.returned) :
        context.returned[r].continued = 0
            => /\ \A k \in 1..Len(context.log) :
                      context.log[k] <= context.returned[r].position
               /\ \A e \in 1..Len(context.entryPointBy) :
                      context.entryPointBy[e] < context.returned[r].position

\* No interceptor has called continueExecution more than once.
SingleRelay(context) ==
    /\ \A f \in 1..Len(context.frames) : context.frames[f].continued <= 1
    /\ \A r \in 1..Len(context.returned) : context.returned[r].continued <= 1

DepthNeverDecreases ==
    [][\A i \in 1..Len(hosts.leaf.executing) :
          (/\ i <= Len(hosts'.leaf.executing)
           /\ Len(hosts'.leaf.executing[i].log) > 1)
              => hosts'.leaf.executing[i].executionDepth
                     >= hosts.leaf.executing[i].executionDepth]_vars

C24_PipelineOrder ==
    /\ [](\A i \in 1..Len(hosts.leaf.executing) :
             /\ CallOrder(hosts.leaf.executing[i])
             /\ NothingBelowShortCircuit(hosts.leaf.executing[i]))
    /\ DepthNeverDecreases

\* C24 as it holds: the same, where the last part is about requests none of
\* whose interceptors calls continueExecution more than once.
C24_PipelineOrderSingleRelay ==
    /\ [](\A i \in 1..Len(hosts.leaf.executing) :
             /\ CallOrder(hosts.leaf.executing[i])
             /\ SingleRelay(hosts.leaf.executing[i])
                    => NothingBelowShortCircuit(hosts.leaf.executing[i]))
    /\ DepthNeverDecreases

\* A request has been executed whose first interceptor relayed once to the
\* second, which returned without calling continueExecution, with
\* executeEntryPoint below it.
C24_Witness ==
    /\ hosts.leaf.executing # <<>>
    /\ LET context == hosts.leaf.executing[1]
       IN  /\ Len(context.executionStack) = 3
           /\ context.executionStack[3] = "executeEntryPoint"
           /\ context.frames = <<>>
           /\ SingleRelay(context)
           /\ \E r \in 1..Len(context.returned) :
                  context.returned[r].position = 2 /\ context.returned[r].continued = 0

(***************************************************************************)
(* C25.  Template cache closure: after any sequence of load, getOrLoad and *)
(* unload calls on a RequestTemplateManager, every cached entry has a      *)
(* reference count of at least 1 and the base template of every cached     *)
(* template is itself cached, so unload never fails its internal assertion *)
(* while walking a base chain.                                             *)
(***************************************************************************)
C25_TemplateCacheClosure ==
    LET cache == hosts.leaf.templates.cache
    IN  /\ \A uri \in DOMAIN cache :
               /\ cache[uri].refCount >= 1
               /\ cache[uri].template.base # Null
                      => cache[uri].template.base.uri \in DOMAIN cache
        /\ last.op = "RequestTemplateManager.unload" => ~IsFail(last.val)

\* A template that has a base is cached.
C25_Witness ==
    \E uri \in DOMAIN hosts.leaf.templates.cache :
        hosts.leaf.templates.cache[uri].template.base # Null

\* The reference counts themselves never fall below 1.
C25_ReferenceCounts ==
    \A uri \in DOMAIN hosts.leaf.templates.cache :
        hosts.leaf.templates.cache[uri].refCount >= 1

(***************************************************************************)
(* C26.  Cyclic template inheritance is detected and never causes          *)
(* non-termination: for template files whose base references form a cycle  *)
(* (URIs compared ignoring case) RequestTemplateFileLoader.load throws the *)
(* "Circle found in template inheritance" error, and getApplicationName    *)
(* also ends with an error instead of recursing without bound; for acyclic *)
(* chains both end normally.                                               *)
(***************************************************************************)
\* The files reached from a file through base references.
RECURSIVE BasesOf(_, _)
BasesOf(uri, seen) ==
    IF uri \notin TemplateFileNames \/ toLowerCase(uri) \in seen
          \/ TemplateFile(uri).base = Undefined
    THEN {}
    ELSE {TemplateFile(uri).base}
             \cup BasesOf(TemplateFile(uri).base, seen \cup {toLowerCase(uri)})

\* The file, or one it inherits from, is among its own bases.
Cyclic(uri) ==
    \E b \in BasesOf(uri, {}) \cup {uri} :
        toLowerCase(b) \in {toLowerCase(x) : x \in BasesOf(b, {})}

C26_CyclesAreDetected ==
    /\ (/\ last.op = "RequestTemplateManager.getOrLoad"
        /\ last.input.uri \in TemplateFileNames
        /\ DOMAIN hosts.leaf.applications # {})
           => IF Cyclic(last.input.uri)
              THEN last.val = Rejected("Circle found in template inheritance.")
              ELSE ~IsFail(last.val)
    /\ (last.op = "getApplicationName" /\ last.input.uri \in TemplateFileNames)
           => IF Cyclic(last.input.uri)
              THEN IsFail(last.val)
              ELSE last.val.k = "name"

\* The name of the application of a template in a cycle was asked for.
C26_Witness ==
    /\ last.op = "getApplicationName"
    /\ Cyclic(last.input.uri)

\* The part about load, and getApplicationName on chains without a cycle.
C26_LoadDetectsCycles ==
    /\ (/\ last.op = "RequestTemplateManager.getOrLoad"
        /\ last.input.uri \in TemplateFileNames
        /\ DOMAIN hosts.leaf.applications # {})
           => IF Cyclic(last.input.uri)
              THEN last.val = Rejected("Circle found in template inheritance.")
              ELSE ~IsFail(last.val)
    /\ (/\ last.op = "getApplicationName"
        /\ last.input.uri \in TemplateFileNames
        /\ ~Cyclic(last.input.uri))
           => last.val.k = "name"

(***************************************************************************)
(* C27.  Base templates are shared: when a template is loaded whose base   *)
(* template is already in the cache of the RequestTemplateManager, the     *)
(* new template's base is the very instance manager.get(baseUri) returns;  *)
(* a base is read from its file only when it is not found in the cache.    *)
(***************************************************************************)
\* The last call loaded a template whose base was in the cache.
LoadedOnCachedBase ==
    /\ last.op = "RequestTemplateManager.getOrLoad"
    /\ ~IsFail(last.val)
    /\ last.input.uri \notin DOMAIN last.input.before.cache
    /\ last.val.base # Null
    /\ last.val.base.uri \in DOMAIN last.input.before.cache

C27_BaseTemplatesAreShared ==
    LoadedOnCachedBase
        => /\ last.val.base = RequestTemplateManager_get(hosts.leaf.templates,
                                                          last.val.base.uri)
           /\ hosts.leaf.templates.created = last.input.before.created + 1

C27_Witness == LoadedOnCachedBase

(***************************************************************************)
(* C28.  After any sequence of Leaf.register calls (successful or failed), *)
(* applicationInstanceNames contains no two entries that are equal         *)
(* ignoring letter case, and its entries correspond one-to-one to the keys *)
(* of the Leaf's application map; this includes a single call whose list   *)
(* of names itself contains names that differ only in case or repeat.      *)
(***************************************************************************)
C28_InstanceNamesMatchApplications ==
    LET names == hosts.leaf.applicationInstanceNames
    IN  /\ \A i, j \in 1..Len(names) :
               toLowerCase(names[i]) = toLowerCase(names[j]) => i = j
        /\ {toLowerCase(names[i]) : i \in 1..Len(names)} = DOMAIN hosts.leaf.applications
        /\ Len(names) = Cardinality(DOMAIN hosts.leaf.applications)

\* A call whose names differ only in case or repeat has been answered.
C28_Witness ==
    /\ last.op = "Leaf.register"
    /\ last.input.zone = NoZone
    /\ Len(last.input.names) = 2
    /\ toLowerCase(last.input.names[1]) = toLowerCase(last.input.names[2])

\* The same for calls whose names differ from each other ignoring case.
C28_DistinctNamesMatchApplications ==
    [][(/\ last'.op = "Leaf.register"
        /\ C28_InstanceNamesMatchApplications
        /\ \A i, j \in 1..Len(last'.input.names) :
               toLowerCase(last'.input.names[i]) = toLowerCase(last'.input.names[j]) => i = j)
           => C28_InstanceNamesMatchApplications']_vars

(***************************************************************************)
(* C29.  Provider descriptors are keyed ignoring case for duplicate        *)
(* detection too: when two provider definitions of one application level   *)
(* have protocols that differ only in letter case and the later one is not *)
(* marked override, building the application raises the                    *)
(* duplicate-definition configuration error, rather than the later         *)
(* definition silently replacing the earlier one in the provider registry. *)
(***************************************************************************)
\* Two provider definitions of the level have the same protocol ignoring
\* case, and the later one is not marked override.
UnannouncedDuplicateIgnoringCase(defs) ==
    \E i, j \in 1..Len(defs) :
        /\ i < j
        /\ toLowerCase(defs[i].protocol) = toLowerCase(defs[j].protocol)
        /\ ~defs[j].override

C29_ProviderDuplicatesIgnoreCase ==
    (/\ last.op = "ApplicationConfig.fromConfigObject"
     /\ UnannouncedDuplicateIgnoringCase(Concat(last.input.objectProviders)))
        => last.val.k = "err" /\ last.val.msg = "already exists in file"

\* The protocol is defined as "Pa" by one file and as "pa" by the next, and
\* nothing else is wrong with the level.
C29_Witness ==
    /\ last.op = "ApplicationConfig.fromConfigObject"
    /\ last.input.objectProviders =
           <<<<ProviderDef(<<"P", "a">>, 2)>>, <<ProviderDef(<<"p", "a">>, 4)>>>>
    /\ last.input.objectTypes = <<>>
    /\ last.input.namedObjects = <<>>

\* What happens instead: the level is built, and its provider registry has
\* the later definition under the lower-cased protocol.
C29_LaterDefinitionReplaces ==
    C29_Witness
        => /\ last.val.k = "settings"
           /\ ProviderRegistry_fromDefinition(
                  <<>>, last.val.objectContextDef.providerDefs)
                  [<<"p", "a">>] = ProviderFn(4, <<"p", "a">>)

(***************************************************************************)
(* C30.  Routing and execution agree on the application: for every request *)
(* that serve accepts, the application whose host the Hub dispatches to is *)
(* the application the Leaf's RequestContext executes against, including   *)
(* when the request carries both application and base and the base         *)
(* template belongs to a different registered application.                 *)
(***************************************************************************)
\* Hub.serve handed the request to a host and a RequestContext was
\* constructed for it there.
RoutedAndExecuted ==
    /\ last.op = "Hub.serve"
    /\ last.calls # <<>>
    /\ last.input.routed.application # Undefined

C30_RoutingAndExecutionAgree ==
    RoutedAndExecuted => last.input.routed.application = last.input.routed.appName

\* The request names application "b" and the template of application "a",
\* both are registered on the local host, and the request is answered with
\* success by a context of application "a".
C30_Witness ==
    /\ RoutedAndExecuted
    /\ last.input.request.application = <<"b">>
    /\ last.input.request.base = <<"t", "1">>
    /\ last.input.before.hostMap = (<<"a">> :> NoZone) @@ (<<"b">> :> NoZone)
    /\ last.val.k = "response"
    /\ last.val.responseCode = "Success"
    /\ last.input.routed = [appName |-> <<"b">>, application |-> <<"a">>]

\* A request that carries only one of application and base is executed
\* against the application it was routed by.
C30_SingleFieldRequestsAgree ==
    (/\ RoutedAndExecuted
     /\ (last.input.request.application = Undefined
            \/ last.input.request.base = Undefined))
        => last.input.routed.application = last.input.routed.appName

====
